---- MODULE Spec2Model ----
(***************************************************************************)
(* PhotoArchive: the `index` command (photoArchive.py, indexCmdMain) and   *)
(* the IndexBuilder it drives (FileDb.py).  One builder run is modelled    *)
(* step by step: read the old manifest, list the tree, report missing      *)
(* files, process every file, commit the new manifest, clean up, print the *)
(* summary.  File-system calls of the commit and cleanup steps, and the    *)
(* hashing of a file, may fail with an I/O error.                          *)
(***************************************************************************)
EXTENDS Integers, Sequences, FiniteSets, TLC

\* ---------------------------------------------------------------- bounds
MaxFiles == 2       \* relative paths a folder's tree and manifest may name
MaxFolders == 2     \* FOLDERS arguments of one `index` invocation
MaxFaults == 1      \* I/O errors the environment injects into one invocation
MaxAdds == 3        \* FileDb.addFile calls made on one FileDb
MaxLines == 2       \* lines of a manifest written with ChecksumFileWriter
MaxClock == 2       \* seconds that pass while concurrent runs are under way
MaxDepth == 2       \* nesting of directories below the root of a walked tree

\* ------------------------------------------------------------ vocabulary
None == "None"

Paths == 1 .. MaxFiles          \* relative paths, ordered as sorted() orders them

Sha2Name == "Checksums.sha2"
Sha1Name == "Checksums.sha1"
Sha2Backup == "Checksums.bak.sha2"
Sha1Backup == "Checksums.bak.sha1"
TempName == "Checksums-TS.sha2"

\* a manifest name given with --checksum-file, its temporary and backup names
ExplicitName == "index.txt"
ExplicitBackup == "index.bak.txt"
ExplicitTemp == "index-TS.txt"

IndexNames == {Sha2Name, Sha1Name, Sha2Backup, Sha1Backup, TempName,
               ExplicitName, ExplicitBackup, ExplicitTemp}

\* the relative path of an index file of the folder; as sorted() orders
\* paths, these come before the paths of Paths, in the order of their names
IndexPath(name) ==
    CASE name = TempName -> 0 - 7
      [] name = Sha1Backup -> 0 - 6
      [] name = Sha2Backup -> 0 - 5
      [] name = Sha1Name -> 0 - 4
      [] name = Sha2Name -> 0 - 3
      [] name = ExplicitTemp -> 0 - 2
      [] name = ExplicitBackup -> 0 - 1
      [] OTHER -> 0

\* the globs createFileTreeIterator excludes
CliExcluded == {"*.sha[12]", "Thumbs.db", "@*"}

\* fnmatch of an index file's name against a glob
Matches(name, glob) ==
    glob = "*.sha[12]"
        /\ name \in {Sha2Name, Sha1Name, Sha2Backup, Sha1Backup, TempName}

\* FileTreeIterator.__checkName: no excluded glob matches the name
checkName(name, globs) == \A g \in globs : ~Matches(name, g)

\* bytes of file p as they are on disk during the run, and other bytes
FileData(p) == <<p, "current">>
OtherData(p) == <<p, "other">>

defaultChecksumAlgorithm == "sha256"

\* hexdigest() of hashlib.new(algorithm): 40 or 64 hex characters
HexLen(algorithm) == IF algorithm = "sha1" THEN 40 ELSE 64

Digest(algorithm, data) == [len |-> HexLen(algorithm), data |-> data]

calculateChecksum(p, algorithm) == Digest(algorithm, FileData(p))

\* the two lengths confused
detectChecksumAlgorithmSwapped(checksum) ==
    IF checksum.len = 40 THEN "sha256"
    ELSE IF checksum.len = 64 THEN "sha1"
    ELSE None

detectChecksumAlgorithm(checksum) ==
    IF checksum.len = 40 THEN "sha1"
    ELSE IF checksum.len = 64 THEN "sha256"
    ELSE None

\* sorted( S ) for a set of paths
RECURSIVE SortedSeq(_)
SortedSeq(S) ==
    IF S = {} THEN << >>
    ELSE LET m == CHOOSE x \in S : \A y \in S : x <= y
         IN  <<m>> \o SortedSeq(S \ {m})

Range(s) == {s[i] : i \in DOMAIN s}

\* what ChecksumFileWriter.write appends for one file
ManifestLine(p, checksum) == [path |-> p, sum |-> checksum]

\* the dict built by `for fp, c in reader: map[fp] = c` (a later line wins)
ReadChecksumMap(lines) ==
    [p \in {lines[i].path : i \in DOMAIN lines} |->
        lines[CHOOSE i \in DOMAIN lines :
                 /\ lines[i].path = p
                 /\ \A j \in DOMAIN lines : lines[j].path = p => j <= i].sum]

EmptyMap == ReadChecksumMap(<< >>)

\* ------------------------------------------------- folders as found on disk
\* A manifest written earlier records, for some paths, the digest of the
\* file's present bytes ("good") or of other bytes ("stale"), all of its
\* digests made with one algorithm.
Algorithms == {"sha1", "sha256"}

Recorded == {"none", "good", "stale"}

EarlierManifest(algorithm, rec) ==
    LET ps == SortedSeq({p \in Paths : rec[p] # "none"})
    IN  [i \in DOMAIN ps |->
            ManifestLine(ps[i],
                Digest(algorithm,
                       IF rec[ps[i]] = "good" THEN FileData(ps[i])
                                              ELSE OtherData(ps[i])))]

PriorBackup == <<ManifestLine(1, Digest("sha1", OtherData(1)))>>

BackupName(oldIndexFile) ==
    IF oldIndexFile = Sha1Name THEN Sha1Backup
    ELSE IF oldIndexFile = ExplicitName THEN ExplicitBackup
    ELSE Sha2Backup

\* the files FileTreeIterator.iterate yields for a folder: the files of the
\* tree and the index files of the folder whose names are not excluded
Listing(t, d, globs) ==
    t \cup {IndexPath(n) : n \in {m \in DOMAIN d : checkName(m, globs)}}

\* The index files of a folder are a function from the names that exist to
\* the lines of the file.
Exists(d, name) == name \in DOMAIN d

Stored(d, name, lines) ==
    [n \in DOMAIN d \cup {name} |-> IF n = name THEN lines ELSE d[n]]

Unlinked(d, name) == [n \in DOMAIN d \ {name} |-> d[n]]

Renamed(d, name, to) == Unlinked(Stored(d, to, d[name]), name)

EmptyDisk == [n \in {} |-> << >>]

FolderDisk(oldName, algorithm, rec, hasBackup) ==
    [n \in (IF oldName = None THEN {} ELSE {oldName})
            \cup (IF hasBackup /\ oldName # None THEN {BackupName(oldName)} ELSE {}) |->
        IF n = oldName THEN EarlierManifest(algorithm, rec) ELSE PriorBackup]

\* ----------------------------------------------------------------- state
VARIABLES
    cmdArgs,      \* indexAction, changesMode, reuseChecksums of the invocation
    cmdPc,        \* indexCmdMain: "loop", "run", "returned", "raised"
    folderNo,     \* folders taken from FOLDERS so far
    success,      \* indexCmdMain's local `success`
    exitCode,     \* << >>, then <<value returned by indexCmdMain>>
    runs,         \* per finished run: how it ended and whether it counted
                  \* a missing, damaged or new file
    tree,         \* paths of the files the tree walker yields for the folder
    disk,         \* index files of the folder: name -> lines
    disk0,        \* disk when the builder was constructed
    openWriters,  \* names of files currently open for writing
    builder,      \* the IndexBuilder's fields
    pc,           \* position of IndexBuilder.run
    fileList,     \* __process's sorted file list
    fileNo,       \* files of fileList that __processFile was called for
    exc,          \* exception propagating out of __process, or None
    rc,           \* << >>, then <<value returned by __process>>
    faultsLeft,   \* I/O errors still to be injected
    hashed,       \* calculateChecksum calls of this run: <<path, algorithm>>
    out,          \* lines printed by this run
    trail,        \* file-system steps of this run, in order
    excluded,     \* FileTreeIterator.__excluded: the globs of the walker
    firstRun,     \* outcome of the run made over the folder before this one
    fileDb,       \* a FileDb: __hashIndex, the FileInfo objects, __nextId,
                  \* __algorithms
    dbCalls,      \* addFile calls made on fileDb
    dbResult,     \* the last call made on fileDb and how it ended
    dirTree,      \* an indexed tree: per directory, its index files
    walk,         \* __addIndexedTree: per active call, the directory and the
                  \* entries its scandir loop has still to yield
    visited,      \* directories __addIndexedTree was called for, in order
    loaded,       \* index files addChecksumFile was called for, in order
    flavour,      \* the path flavour of pathlib.Path on the platform
    manifest,     \* a manifest file: who wrote it, the pairs, the text lines
    readBack,     \* what a ChecksumFileReader yielded for the manifest
    clock,        \* the second strftime reports
    tempFiles,    \* temporary manifests of a folder: name -> the run that
                  \* opened it last, 0 for one left by an earlier run
    runners,      \* concurrent create runs over the folder: per run, its
                  \* position, the locals of __openNewIndex and its fields
    writersOpened,\* the ChecksumFileWriter constructions so far, in order
    scanned,      \* a tree to walk: per depth, the kind of the entry of each
                  \* name in the directories at that depth
    iteration,    \* FileTreeIterator.iterate: its locals and what it yielded
    shelf,        \* the folders the index command is done with, in order:
                  \* their index files before and after, how the run ended
    restore       \* the restore command: RestoreCommand's fields, the locals of
                  \* process, the folder being restored, what happened so far

vars == <<cmdArgs, cmdPc, folderNo, success, exitCode, runs, tree, disk, disk0,
          openWriters, builder, pc, fileList, fileNo, exc, rc, faultsLeft,
          hashed, out, trail, excluded, firstRun, fileDb, dbCalls, dbResult,
          dirTree, walk, visited, loaded, flavour, manifest, readBack,
          clock, tempFiles, runners, writersOpened, scanned, iteration, shelf,
          restore>>

dbVars == <<fileDb, dbCalls, dbResult>>

treeVars == <<dirTree, walk, visited, loaded>>

codecVars == <<flavour, manifest, readBack>>

tempVars == <<clock, tempFiles, runners, writersOpened>>

iterVars == <<scanned, iteration>>

toolVars == <<tempVars, iterVars, shelf, restore>>

libVars == <<dbVars, treeVars, codecVars, toolVars>>

envVars == <<excluded, firstRun, libVars>>

cmdVars == <<cmdArgs, cmdPc, folderNo, success, exitCode, runs>>

runVars == <<tree, disk, disk0, openWriters, builder, pc, fileList, fileNo, exc, rc,
             hashed, out, trail>>

Line(tag, p, text) == [tag |-> tag, path |-> p, text |-> text]

\* a builder that creates whatever the action
NewBuilderAlwaysCreates(args) ==
    [ create |-> TRUE,
      verify |-> args.indexAction # "create",
      rejectChanges |-> args.changesMode = "reject",
      reviewChanges |-> args.changesMode = "review",
      reuseChecksums |-> args.reuseChecksums,
      indexFileName |-> args.checksumFile,
      newIndexFilePath |-> None,
      newIndexWriter |-> None,
      oldIndexFilePath |-> None,
      fileChecksumMap |-> EmptyMap,
      newCount |-> 0,
      missingCount |-> 0,
      damagedCount |-> 0 ]

\* IndexBuilder.__init__ as called by indexCmdMain
NewBuilder(args) ==
    LET create == args.indexAction # "verify"
        verify == args.indexAction # "create"
    IN  [ create |-> create,
          verify |-> verify,
          rejectChanges |-> create /\ args.changesMode = "reject",
          reviewChanges |-> create /\ args.changesMode = "review",
          reuseChecksums |-> args.reuseChecksums,
          indexFileName |-> args.checksumFile,
          newIndexFilePath |-> None,
          newIndexWriter |-> None,
          oldIndexFilePath |-> None,
          fileChecksumMap |-> EmptyMap,
          newCount |-> 0,
          missingCount |-> 0,
          damagedCount |-> 0 ]

IdleBuilder == NewBuilder([indexAction |-> "verify", changesMode |-> "reject",
                           reuseChecksums |-> FALSE, checksumFile |-> None])

\* no run was made over the folder before
NoFirstRun == [ended |-> None, rc |-> << >>, counts |-> <<0, 0, 0>>, summary |-> None,
               action |-> None]

\* between two runs no builder exists and no folder is being worked on
NoRun ==
    /\ tree = {}
    /\ disk = EmptyDisk
    /\ disk0 = EmptyDisk
    /\ openWriters = {}
    /\ builder = IdleBuilder
    /\ pc = "idle"
    /\ fileList = << >>
    /\ fileNo = 0
    /\ exc = None
    /\ rc = << >>
    /\ hashed = << >>
    /\ out = << >>
    /\ trail = << >>

\* the builder goes out of scope and the command leaves the folder
DiscardRun ==
    /\ tree' = {}
    /\ disk' = EmptyDisk
    /\ disk0' = EmptyDisk
    /\ openWriters' = {}
    /\ builder' = IdleBuilder
    /\ pc' = "idle"
    /\ fileList' = << >>
    /\ fileNo' = 0
    /\ exc' = None
    /\ rc' = << >>
    /\ hashed' = << >>
    /\ out' = << >>
    /\ trail' = << >>

NoChecksum == [len |-> 0, data |-> <<0, "None">>]     \* checksum = None

\* ------------------------------------------------------------------ FileDb
\* `None` where a FileInfo is expected
NoInfo == 0 - 1

\* paths of indexed files and of files looked up: folder and base name
DbNames == {"IMG_1.jpg", "img_1.JPG", "IMG_1.JPG", "IMG_2.jpg", "img_2.jpg"}

\* str.lower() of a base name
Lower(name) ==
    IF name \in {"IMG_1.jpg", "img_1.JPG", "IMG_1.JPG"} THEN "img_1.jpg"
    ELSE IF name \in {"IMG_2.jpg", "img_2.jpg"} THEN "img_2.jpg"
    ELSE name

DbPath(dir, name) == [dir |-> dir, name |-> name]

\* FileInfo.__init__
FileInfo(filePath, checksum, id) ==
    [filePath |-> filePath, checksum |-> checksum, id |-> id, duplicate |-> NoInfo]

\* FileDb.__init__
NewFileDb ==
    [ hashIndex |-> [c \in {} |-> NoInfo],
      infos |-> [i \in {} |-> FileInfo(DbPath("", ""), NoChecksum, NoInfo)],
      nextId |-> 0,
      algorithms |-> << >> ]

\* the head of the chain taken for its tail
ChainTailIsHead(infos, prevInfo) == prevInfo

\* addFile, `while prevInfo.duplicate is not None: prevInfo = prevInfo.duplicate`
RECURSIVE ChainTail(_, _)
ChainTail(infos, prevInfo) ==
    IF infos[prevInfo].duplicate = NoInfo THEN prevInfo
    ELSE ChainTail(infos, infos[prevInfo].duplicate)

\* every unknown length taken for the default algorithm
addFileRaisesNever(checksum) == FALSE

\* FileDb.addFile raises ValueError( 'Unknown checksum type' )
addFileRaises(checksum) == detectChecksumAlgorithm(checksum) = None

\* FileDb.addFile: the FileDb after the call
addFile(db, filePath, checksum) ==
    LET algorithm == detectChecksumAlgorithm(checksum)
        algorithms1 == IF algorithm \in Range(db.algorithms) THEN db.algorithms
                       ELSE Append(db.algorithms, algorithm)
        fileInfo == FileInfo(filePath, checksum, db.nextId)
        infos1 == [i \in DOMAIN db.infos \cup {db.nextId} |->
                      IF i = db.nextId THEN fileInfo ELSE db.infos[i]]
        known == checksum \in DOMAIN db.hashIndex
        prevInfo == ChainTail(db.infos, db.hashIndex[checksum])
    IN  IF addFileRaises(checksum) THEN db
        ELSE [ hashIndex |->
                  IF known THEN db.hashIndex
                  ELSE [c \in DOMAIN db.hashIndex \cup {checksum} |->
                           IF c = checksum THEN db.nextId ELSE db.hashIndex[c]],
               infos |->
                  IF known THEN [infos1 EXCEPT ![prevInfo].duplicate = db.nextId]
                  ELSE infos1,
               nextId |-> db.nextId + 1,
               algorithms |-> algorithms1 ]

\* findBestMatch, the loop `while f is not None`
RECURSIVE ScanChain(_, _, _)
ScanChain(infos, f, fileName) ==
    IF f = NoInfo THEN NoInfo
    ELSE IF Lower(infos[f].filePath.name) = fileName THEN f
    ELSE ScanChain(infos, infos[f].duplicate, fileName)

\* the head of the chain whatever the names
findBestMatchHead(infos, self, filePath) == self

\* FileInfo.findBestMatch
findBestMatch(infos, self, filePath) ==
    IF infos[self].duplicate = NoInfo THEN self
    ELSE LET f == ScanChain(infos, self, Lower(filePath.name))
         IN  IF f = NoInfo THEN self ELSE f

\* FileDb.__findFileInfoChain from the i-th algorithm on, for a file with
\* the bytes of file p: the algorithms hashed with and the chain found
RECURSIVE FindFileInfoChain(_, _, _)
FindFileInfoChain(db, p, i) ==
    IF i > Len(db.algorithms) THEN [tried |-> db.algorithms, value |-> NoInfo]
    ELSE LET checksum == calculateChecksum(p, db.algorithms[i])
         IN  IF checksum \in DOMAIN db.hashIndex
             THEN [tried |-> SubSeq(db.algorithms, 1, i), value |-> db.hashIndex[checksum]]
             ELSE FindFileInfoChain(db, p, i + 1)

\* FileDb.findFile
findFile(db, filePath, p) ==
    LET chain == FindFileInfoChain(db, p, 1)
    IN  [ tried |-> chain.tried,
          value |-> IF chain.value # NoInfo
                    THEN findBestMatch(db.infos, chain.value, filePath)
                    ELSE NoInfo ]

\* the arguments of the calls made on the FileDb
DbPaths == {DbPath("a", "IMG_1.jpg"), DbPath("b", "img_1.JPG"), DbPath("c", "IMG_2.jpg")}
DbFiles == {1, 2}
DbChecksums == [len : {32, 40, 64}, data : {FileData(p) : p \in DbFiles}]
DbQueries == {DbPath("q", "IMG_1.JPG"), DbPath("q", "img_2.jpg")}

\* a call on the FileDb: its arguments, the FileDb before it, the exception
\* it raised if any, the algorithms it hashed with and the value it returned
DbResult(op, filePath, checksum, before, raised, tried, value) ==
    [op |-> op, filePath |-> filePath, checksum |-> checksum, before |-> before,
     raised |-> raised, tried |-> tried, value |-> value]

NoDbResult == DbResult("none", DbPath("", ""), NoChecksum, NewFileDb, None, << >>, NoInfo)

\* no FileDb is in use
NoFileDb ==
    /\ fileDb = NewFileDb
    /\ dbCalls = 0
    /\ dbResult = NoDbResult

\* ------------------------------------------------------ FileDb.addIndexedTree
\* the directories of an indexed tree, as paths relative to its base
Dirs == {<< >>, <<"x">>, <<"y">>, <<"x", "z">>}

\* the directory entries of directory d that are directories
Subdirs(d) == {e \in Dirs : Len(e) = Len(d) + 1 /\ SubSeq(e, 1, Len(d)) = d}

\* an index file of a directory: absent, or a manifest whose checksums are
\* all of a known length ("valid"), or one with a checksum of another
\* length on its second line ("invalid")
IndexKinds == {"absent", "valid", "invalid"}

NoIndexFiles == [sha2 |-> "absent", sha1 |-> "absent"]

\* what a ChecksumFileReader yields for an index file of the tree
IndexLines(indexFileName, kind) ==
    LET algorithm == IF indexFileName = Sha1Name THEN "sha1" ELSE "sha256"
    IN  << [path |-> DbPath(<<"s">>, "IMG_1.jpg"), sum |-> Digest(algorithm, FileData(1))],
           [path |-> DbPath(<< >>, "IMG_2.jpg"),
            sum |-> IF kind = "invalid" THEN [len |-> 32, data |-> FileData(2)]
                    ELSE Digest(algorithm, FileData(2))] >>

\* basePath.joinpath( fp ) for relative paths
JoinPath(basePath, fp) == DbPath(basePath \o fp.dir, fp.name)

\* FileDb.addChecksumFile from line i on: the FileDb after it and whether
\* addFile raised
RECURSIVE addChecksumFile(_, _, _, _)
addChecksumFile(db, basePath, lines, i) ==
    IF i > Len(lines) THEN [db |-> db, raised |-> None]
    ELSE IF addFileRaises(lines[i].sum) THEN [db |-> db, raised |-> "ValueError"]
    ELSE addChecksumFile(addFile(db, JoinPath(basePath, lines[i].path), lines[i].sum),
                         basePath, lines, i + 1)

\* the legacy manifest preferred
FirstIndexFileLegacy(entry) ==
    IF entry.sha1 # "absent" THEN Sha1Name
    ELSE IF entry.sha2 # "absent" THEN Sha2Name
    ELSE None

\* __addIndexedTree, `for indexFileName in ('Checksums.sha2', 'Checksums.sha1')`:
\* the first that exists
FirstIndexFile(entry) ==
    IF entry.sha2 # "absent" THEN Sha2Name
    ELSE IF entry.sha1 # "absent" THEN Sha1Name
    ELSE None

KindOf(entry, indexFileName) == IF indexFileName = Sha2Name THEN entry.sha2 ELSE entry.sha1

Frame(relativePath, pending) == [relativePath |-> relativePath, pending |-> pending]

NoTree ==
    /\ dirTree = [d \in Dirs |-> NoIndexFiles]
    /\ walk = << >>
    /\ visited = << >>
    /\ loaded = << >>

\* ------------------------------------- ChecksumFileReader, ChecksumFileWriter
\* Text is a sequence of characters; a path is the sequence of its parts.

\* the characters pathlib takes for separators
Separators(fl) == IF fl = "windows" THEN {"/", "\\"} ELSE {"/"}

\* the pieces of a text between the characters of seps
RECURSIVE SplitAt(_, _)
SplitAt(text, seps) ==
    LET at == {i \in DOMAIN text : text[i] \in seps}
    IN  IF at = {} THEN <<text>>
        ELSE LET i == CHOOSE k \in at : \A l \in at : k <= l
             IN  <<SubSeq(text, 1, i - 1)>> \o SplitAt(SubSeq(text, i + 1, Len(text)), seps)

IsPart(piece) == piece # << >> /\ piece # <<".">>

\* pathlib.Path( text ): the parts of a relative path, empty and '.' pieces
\* dropped
PathOf(text, fl) == SelectSeq(SplitAt(text, Separators(fl)), IsPart)

\* PurePath.as_posix() of a relative path
RECURSIVE as_posix(_)
as_posix(parts) ==
    IF parts = << >> THEN <<".">>
    ELSE IF Len(parts) = 1 THEN parts[1]
    ELSE parts[1] \o <<"/">> \o as_posix(Tail(parts))

\* ChecksumFileWriter.write: the line printed, without its newline
WriteLine(filePath, checksum) == checksum \o <<" ", "*", ".", "/">> \o as_posix(filePath)

\* l.rstrip( '\r\n' )
RECURSIVE RStrip(_)
RStrip(l) ==
    IF l # << >> /\ l[Len(l)] \in {"\r", "\n"} THEN RStrip(SubSeq(l, 1, Len(l) - 1)) ELSE l

\* l.partition( ' ' )
Partition(l) ==
    LET at == {i \in DOMAIN l : l[i] = " "}
    IN  IF at = {} THEN [c |-> l, s |-> << >>, n |-> << >>]
        ELSE LET i == CHOOSE k \in at : \A j \in at : k <= j
             IN  [c |-> SubSeq(l, 1, i - 1), s |-> <<" ">>, n |-> SubSeq(l, i + 1, Len(l))]

\* no line taken for malformed
MalformedNever(s, n) == FALSE

\* __next__, `if s == '' or n == ''`
Malformed(s, n) == s = << >> \/ n = << >>

\* the message of the ValueError raised for a malformed line
InvalidLine(lineNo, fileName) == <<"Invalid checksum line #", lineNo, " in ", fileName>>

\* ChecksumFileReader.__next__ for one line read
ReadLine(line, fl) ==
    LET l == RStrip(line)
        p == Partition(l)
        n == IF p.n # << >> /\ p.n[1] \in {"*", " "} THEN Tail(p.n) ELSE p.n
    IN  IF l = << >> THEN [kind |-> "blank", path |-> << >>, sum |-> << >>]
        ELSE IF Malformed(p.s, n) THEN [kind |-> "error", path |-> << >>, sum |-> << >>]
        ELSE [kind |-> "pair", path |-> PathOf(n, fl), sum |-> p.c]

\* `for fp, c in reader` from line i on: the pairs yielded, the error raised
\* and the reader's line counter when it stopped
RECURSIVE ReadLines(_, _, _)
ReadLines(lines, i, fl) ==
    IF i > Len(lines) THEN [pairs |-> << >>, raised |-> None, lineNo |-> Len(lines)]
    ELSE LET r == ReadLine(lines[i], fl)
             rest == ReadLines(lines, i + 1, fl)
         IN  IF r.kind = "error"
             THEN [pairs |-> << >>, raised |-> "ValueError", lineNo |-> i]
             ELSE IF r.kind = "blank" THEN rest
             ELSE [pairs |-> <<[path |-> r.path, sum |-> r.sum]>> \o rest.pairs,
                   raised |-> rest.raised, lineNo |-> rest.lineNo]

\* the message of the error a read ended with
ReadMessage(read, fileName) ==
    IF read.raised = None THEN << >> ELSE InvalidLine(read.lineNo, fileName)

\* base names of files: letters and dots, a leading space, a leading '*', and
\* (where the platform allows it in a name) a backslash
PlainNames == {<<"a">>, <<"b", ".", "j">>}
CodecNames(fl) ==
    PlainNames \cup {<<" ", "a">>, <<"*", "a">>}
        \cup (IF fl = "posix" THEN {<<"a", "\\", "b">>} ELSE {})

\* relative paths of one or two parts over a set of names
PathsOver(names) == {<<n>> : n \in names} \cup {<<d, n>> : d \in names, n \in names}

CodecChecksums == {<<"0", "f">>, <<"f">>}

Pair(filePath, checksum) == [path |-> filePath, sum |-> checksum]

RECURSIVE SeqsUpTo(_, _)
SeqsUpTo(S, n) ==
    IF n = 0 THEN {<< >>}
    ELSE LET shorter == SeqsUpTo(S, n - 1)
         IN  shorter \cup {Append(q, x) : q \in shorter, x \in S}

\* a line as another tool may have stored it: the parts joined with sep,
\* with or without the './' prefix, behind the marker, before the line end
RECURSIVE JoinWith(_, _)
JoinWith(parts, sep) ==
    IF Len(parts) = 1 THEN parts[1]
    ELSE parts[1] \o <<sep>> \o JoinWith(Tail(parts), sep)

StoredLine(filePath, checksum, sep, dotPrefix, marker, eol) ==
    checksum \o <<" ">> \o marker \o (IF dotPrefix THEN <<".", sep>> ELSE << >>)
        \o JoinWith(filePath, sep) \o eol

NoManifest == [origin |-> "none", name |-> None, pairs |-> << >>, text |-> << >>]
NotRead == [done |-> FALSE, pairs |-> << >>, raised |-> None, message |-> << >>]

\* ------------------------------------------------- FileDb.addChecksumFile
\* a checksum string of n characters
Hex(n, ch) == [i \in 1..n |-> ch]

\* a checksum string as FileDb takes it: its length and its characters
ChecksumOf(c) == [len |-> Len(c), data |-> c]

\* the parent and the name of a path read from a manifest
AsDbPath(parts) ==
    IF parts = << >> THEN DbPath(<< >>, << >>)
    ELSE DbPath(SubSeq(parts, 1, Len(parts) - 1), parts[Len(parts)])

\* FileDb.addChecksumFile( basePath, fileName ) over the text of the file:
\* the FileDb after it, the exception that ended it and its message
LoadChecksumFile(db, basePath, fileName, text, fl) ==
    LET read == ReadLines(text, 1, fl)
        pairs == [i \in DOMAIN read.pairs |->
                     [path |-> AsDbPath(read.pairs[i].path),
                      sum |-> ChecksumOf(read.pairs[i].sum)]]
        added == addChecksumFile(db, basePath, pairs, 1)
    IN  [ db |-> added.db,
          raised |-> IF added.raised # None THEN added.raised ELSE read.raised,
          message |-> IF added.raised # None THEN <<"Unknown checksum type">>
                      ELSE ReadMessage(read, fileName) ]

\* the lines a manifest to load is made of: two well-formed lines, a blank
\* line, a line of one space, lines without separator, without path and with
\* the marker alone, and a well-formed line whose checksum is no digest
LoadLines ==
    { Hex(40, "f") \o <<" ", "*", ".", "/", "a">>,
      Hex(64, "0") \o <<" ", "*", ".", "/", "b", "/", "a">>,
      << >>,
      <<" ">>,
      Hex(40, "f"),
      Hex(40, "f") \o <<" ">>,
      Hex(64, "0") \o <<" ", "*">>,
      <<"f", " ", "*", ".", "/", "a">> }

LoadBases == {<< >>, <<<<"d">>>>}

NoCodec ==
    /\ flavour = "posix"
    /\ manifest = NoManifest
    /\ readBack = NotRead

\* ------------------------------------------- IndexBuilder.__openNewIndex
\* the create runs under way over one folder at the same time
Runners == {1, 2}

\* secrets.token_hex( 2 ): two of its 65536 values
Tokens == {"3f9a", "c041"}

\* the number of candidates __openNewIndex tests before it gives up
MaxAttempts == 50

\* stem + suffix for the second `stamp`, and stem + '_' + token + suffix
NewFilePath(stamp, token) == [stamp |-> stamp, token |-> token]

NoPath == NewFilePath(0, "")        \* newIndexFilePath = None

\* a run whose file loop has not begun, over a tree of fileCount files
NewRunner(fileCount) ==
    [ pc |-> "file", fileCount |-> fileCount, fileNo |-> 0, stamp |-> 0,
      newFilePath |-> NoPath, attempt |-> 0,
      newIndexFilePath |-> NoPath, exc |-> None ]

NoTemp ==
    /\ clock = 1
    /\ tempFiles = [n \in {} |-> 0]
    /\ runners = [r \in {} |-> NewRunner(0)]
    /\ writersOpened = << >>

\* ------------------------------------------------------- FileTreeIterator
\* Names are sequences of characters.
\* str.lower() of a character
LowerChar(c) ==
    CASE c = "A" -> "a"
      [] c = "B" -> "b"
      [] c = "T" -> "t"
      [] OTHER -> c

\* str.lower()
lower(name) == [i \in DOMAIN name |-> LowerChar(name[i])]

\* the code point of a character
Code(c) ==
    CASE c = "*" -> 42
      [] c = "@" -> 64
      [] c = "A" -> 65
      [] c = "B" -> 66
      [] c = "T" -> 84
      [] c = "a" -> 97
      [] c = "b" -> 98
      [] c = "t" -> 116
      [] OTHER -> 120

\* s <= t for strings
RECURSIVE StrLeq(_, _)
StrLeq(s, t) ==
    IF s = << >> THEN TRUE
    ELSE IF t = << >> THEN FALSE
    ELSE IF Code(s[1]) # Code(t[1]) THEN Code(s[1]) < Code(t[1])
    ELSE StrLeq(Tail(s), Tail(t))

\* the characters compared as they are
SameCharExact(a, b) == a = b

\* re.RegexFlag.IGNORECASE
SameChar(a, b) == LowerChar(a) = LowerChar(b)

\* e.match( name ) for the pattern fnmatch.translate makes of a glob of
\* literal characters and '*'
RECURSIVE GlobMatch(_, _)
GlobMatch(name, glob) ==
    IF glob = << >> THEN name = << >>
    ELSE IF glob[1] = "*"
    THEN GlobMatch(name, Tail(glob)) \/ (name # << >> /\ GlobMatch(Tail(name), glob))
    ELSE /\ name # << >>
         /\ SameChar(name[1], glob[1])
         /\ GlobMatch(Tail(name), Tail(glob))

\* FileTreeIterator.__checkName for a name of characters
CheckEntryName(name, globs) == \A g \in globs : ~GlobMatch(name, g)

\* the globs given to addExcluded
WalkExcluded == {<<"@", "*">>, <<"T", "b">>}

\* names of the entries of the root, and of the directories below it
RootNames == {<<"a">>, <<"A">>, <<"B">>, <<"@", "x">>}
InnerNames == {<<"a">>, <<"t", "B">>, <<"B">>}

Entry(name, isDir) == [name |-> name, isDir |-> isDir]

\* scandir( folder ) for a directory with the relative path `folder`
ScanDir(levels, folder) ==
    LET level == levels[Len(folder)]
    IN  {Entry(n, level[n] = "dir") : n \in {m \in DOMAIN level : level[m] # "absent"}}

\* sorted( ..., key = lambda x: x.name.lower() ): every order of the entries
\* with ascending keys, entries of equal key in the order scandir gave them
RECURSIVE SortedByKey(_)
SortedByKey(S) ==
    IF S = {} THEN {<< >>}
    ELSE UNION { {<<m>> \o rest : rest \in SortedByKey(S \ {m})} :
                 m \in {e \in S : \A f \in S : StrLeq(lower(e.name), lower(f.name))} }

\* FileTreeIterator.__scanDir: the iterators it can return
scanDir(levels, folder, globs) ==
    SortedByKey({e \in ScanDir(levels, folder) : CheckEntryName(e.name, globs)})

NotIterating ==
    [pc |-> "idle", iteratorStack |-> << >>, subdir |-> << >>, iterator |-> << >>,
     yielded |-> << >>, turns |-> 0]

NoIter ==
    /\ scanned = [k \in {} |-> 0]
    /\ iteration = NotIterating

NoShelf == shelf = << >>

\* no restore command
IdleRestore ==
    [ pc |-> "idle", skipExisting |-> FALSE, indexed |-> {}, folderNo |-> 0,
      manifest |-> << >>, lineNo |-> 0, files0 |-> << >>, files |-> << >>,
      success |-> TRUE, result |-> "", rc |-> << >>, exitCode |-> << >>,
      notFound |-> FALSE, existed |-> FALSE, skipped |-> FALSE, copied |-> FALSE ]

NoRestore == restore = IdleRestore

NoTools == NoTemp /\ NoIter /\ NoShelf /\ NoRestore

NoLibrary ==
    /\ NoFileDb
    /\ NoTree
    /\ NoCodec
    /\ NoTools

Init ==
    /\ cmdArgs \in [indexAction : {"create", "update", "verify"},
                    changesMode : {"reject", "review", "accept"},
                    reuseChecksums : BOOLEAN,
                    checksumFile : {None}]
    /\ excluded = CliExcluded
    /\ firstRun = NoFirstRun
    /\ NoLibrary
    /\ cmdPc = "loop"
    /\ folderNo = 0
    /\ success = TRUE
    /\ exitCode = << >>
    /\ runs = << >>
    /\ faultsLeft = MaxFaults
    /\ NoRun

\* ------------------------------------------------------- indexCmdMain loop
\* for folder in folders: indexBuilder = IndexBuilder( ... ); indexBuilder.run()
BeginFolder ==
    /\ cmdPc = "loop"
    /\ folderNo < MaxFolders
    /\ \E t \in SUBSET Paths, oldName \in {None, Sha2Name, Sha1Name},
          algorithm \in Algorithms, rec \in [Paths -> Recorded], hasBackup \in BOOLEAN :
          /\ tree' = t
          /\ disk' = FolderDisk(oldName, algorithm, rec, hasBackup)
          /\ disk0' = FolderDisk(oldName, algorithm, rec, hasBackup)
    /\ cmdPc' = "run"
    /\ folderNo' = folderNo + 1
    /\ builder' = NewBuilder(cmdArgs)
    /\ pc' = "process"
    /\ fileList' = << >>
    /\ fileNo' = 0
    /\ exc' = None
    /\ rc' = << >>
    /\ openWriters' = {}
    /\ hashed' = << >>
    /\ out' = << >>
    /\ trail' = << >>
    /\ UNCHANGED <<envVars, cmdArgs, success, exitCode, runs, faultsLeft>>

\* ------------------------------------------------------ IndexBuilder.run

FsStep(op, name, to, ok) == [op |-> op, name |-> name, to |-> to, ok |-> ok]

Raise(e) ==
    /\ exc' = e
    /\ pc' = "cleanup"

\* __getIndexFilePath
GetIndexFilePath ==
    IF builder.indexFileName # None THEN builder.indexFileName ELSE Sha2Name

\* __openNewIndex: the name of the temporary manifest, stem-timestamp.suffix
NewIndexName(filePath) == IF filePath = ExplicitName THEN ExplicitTemp ELSE TempName

\* the legacy manifest tried whatever name was given
OpenOldIndexLegacyAlways(d) ==
    IF Exists(d, GetIndexFilePath) THEN GetIndexFilePath
    ELSE IF Exists(d, Sha1Name) THEN Sha1Name
    ELSE None

\* __openOldIndex: the file the reader is opened on, or None when neither
\* the primary nor the legacy manifest exists
OpenOldIndex(d) ==
    IF Exists(d, GetIndexFilePath) THEN GetIndexFilePath
    ELSE IF builder.indexFileName = None /\ Exists(d, Sha1Name) THEN Sha1Name
    ELSE None

\* __process, `if self.__verify: self.__readOldIndex()`
ReadOldIndex ==
    /\ cmdPc = "run"
    /\ pc = "process"
    /\ LET reader == OpenOldIndex(disk)
       IN  IF ~builder.verify
           THEN /\ pc' = "scan"
                /\ UNCHANGED <<builder, exc, out>>
           ELSE IF reader = None
           THEN IF ~builder.create
                THEN /\ Raise("FileNotFoundError")
                     /\ UNCHANGED <<builder, out>>
                ELSE /\ out' = Append(out, Line("warning", 0, GetIndexFilePath))
                     /\ pc' = "scan"
                     /\ UNCHANGED <<builder, exc>>
           ELSE /\ builder' = [builder EXCEPT !.oldIndexFilePath = reader,
                                             !.fileChecksumMap = ReadChecksumMap(disk[reader])]
                /\ pc' = "scan"
                /\ UNCHANGED <<exc, out>>
    /\ UNCHANGED <<envVars, cmdVars, tree, disk, disk0, openWriters, fileList, fileNo, rc,
                   faultsLeft, hashed, trail>>

\* __process, `fileList = sorted( self.__fileTreeIterator.iterate( ... ) )`
ScanTree ==
    /\ cmdPc = "run"
    /\ pc = "scan"
    /\ fileList' = SortedSeq(Listing(tree, disk, excluded))
    /\ pc' = IF builder.verify THEN "checkMissing" ELSE "files"
    /\ UNCHANGED <<envVars, cmdVars, tree, disk, disk0, openWriters, builder, fileNo, exc, rc,
                   faultsLeft, hashed, out, trail>>

\* the difference taken the wrong way round
MissingPathsSwapped(map, list) == Range(list) \ (DOMAIN map)

\* paths of the old manifest that the listing lacks
MissingPaths(map, list) == (DOMAIN map) \ Range(list)

MissingLines(ps) == [i \in DOMAIN ps |-> Line("m", ps[i], "")]

\* __checkMissing
CheckMissing ==
    /\ cmdPc = "run"
    /\ pc = "checkMissing"
    /\ LET missing == MissingPaths(builder.fileChecksumMap, fileList)
           count == builder.missingCount + Cardinality(missing)
       IN  /\ out' = out \o MissingLines(SortedSeq(missing))
           /\ builder' = [builder EXCEPT !.missingCount = count]
           /\ IF builder.rejectChanges /\ count > 0
              THEN Raise("IndexValidationError")
              ELSE pc' = "files" /\ UNCHANGED exc
    /\ UNCHANGED <<envVars, cmdVars, tree, disk, disk0, openWriters, fileList, fileNo, rc,
                   faultsLeft, hashed, trail>>

\* the comparison `checksum != reference` of __processFile
Differs(checksum, reference) == checksum # reference

\* a damaged file that is counted but does not stop the run
MustAbortNever(b, damaged) == FALSE

\* __processFile, `if self.__rejectChanges: self.__raiseValidationError()`
\* after a damaged file was counted
MustAbort(b, damaged) == damaged /\ b.rejectChanges

\* a reused reference taken for a default-algorithm checksum
ReusedAlgorithmDefault(refAlgorithm) == defaultChecksumAlgorithm

\* __processFile with reuseChecksums, `algorithm = refAlgorithm`
ReusedAlgorithm(refAlgorithm) == refAlgorithm

\* the checksum of the verification written whatever its algorithm
NewIndexChecksumKept(fp, algorithm, checksum) == checksum

\* __processFile, the checksum written to the new manifest: recomputed
\* unless the one at hand was made with the default algorithm
NewIndexChecksum(fp, algorithm, checksum) ==
    IF algorithm # defaultChecksumAlgorithm
    THEN calculateChecksum(fp, defaultChecksumAlgorithm)
    ELSE checksum

\* the new manifest written whatever the flags
WritesNewIndexAlways(b) == TRUE

\* __processFile, `if self.__create:`
WritesNewIndex(b) == b.create

\* the file hashed for verification whether or not checksums are reused
HashedToVerifyAlways(b, hasRef, refAlgorithm) == hasRef /\ refAlgorithm # None

\* __processFile, verification: calculateChecksum is called when the file
\* has a reference, checksums are not reused and refAlgorithm != algorithm,
\* algorithm being None
HashedToVerify(b, hasRef, refAlgorithm) ==
    hasRef /\ ~b.reuseChecksums /\ refAlgorithm # None

\* __processFile for the next file of fileList.  io names the call that
\* fails with an I/O error: "verify" the hashing for verification, "create"
\* the hashing or the write for the new manifest, "none" no call.
ProcessFile ==
    /\ cmdPc = "run"
    /\ pc = "files"
    /\ fileNo < Len(fileList)
    /\ LET fp == fileList[fileNo + 1]
           b == builder
           hasRef == b.verify /\ fp \in DOMAIN b.fileChecksumMap
           reference == IF hasRef THEN b.fileChecksumMap[fp] ELSE NoChecksum
           refAlgorithm == detectChecksumAlgorithm(reference)
           verifyHash == HashedToVerify(b, hasRef, refAlgorithm)
           algorithm == IF hasRef /\ b.reuseChecksums THEN ReusedAlgorithm(refAlgorithm)
                        ELSE refAlgorithm
           checksum == IF hasRef /\ b.reuseChecksums THEN reference
                       ELSE IF verifyHash THEN calculateChecksum(fp, refAlgorithm)
                       ELSE NoChecksum
           damaged == hasRef /\ ~b.reuseChecksums /\ Differs(checksum, reference)
           abort == MustAbort(b, damaged)
           counted == [b EXCEPT !.newCount = IF b.verify /\ ~hasRef THEN @ + 1 ELSE @,
                                !.damagedCount = IF damaged THEN @ + 1 ELSE @]
           printed == IF b.verify /\ ~hasRef THEN Append(out, Line("n", fp, ""))
                      ELSE IF damaged THEN Append(out, Line("d", fp, ""))
                      ELSE out
           hashed1 == IF verifyHash THEN Append(hashed, <<fp, refAlgorithm>>) ELSE hashed
           opens == b.newIndexFilePath = None
           newFilePath == IF opens THEN NewIndexName(GetIndexFilePath)
                          ELSE b.newIndexFilePath
           opened == [counted EXCEPT !.newIndexFilePath = newFilePath,
                                     !.newIndexWriter = newFilePath]
           disk1 == IF opens THEN Stored(disk, newFilePath, << >>) ELSE disk
           trail1 == IF opens THEN Append(trail, FsStep("open", newFilePath, "", TRUE))
                     ELSE trail
           createHash == algorithm # defaultChecksumAlgorithm
           written == NewIndexChecksum(fp, algorithm, checksum)
       IN  \E io \in {"none", "verify", "create"} :
            /\ io # "none" => faultsLeft > 0
            /\ io = "verify" => verifyHash
            /\ io = "create" => b.create /\ ~abort
            /\ faultsLeft' = IF io = "none" THEN faultsLeft ELSE faultsLeft - 1
            /\ fileNo' = fileNo + 1
            /\ IF io = "verify"
               THEN /\ Raise("OSError")
                    /\ UNCHANGED <<builder, out, hashed, disk, openWriters, trail>>
               ELSE IF abort
               THEN /\ Raise("IndexValidationError")
                    /\ builder' = counted
                    /\ out' = printed
                    /\ hashed' = hashed1
                    /\ UNCHANGED <<disk, openWriters, trail>>
               ELSE IF ~WritesNewIndex(b)
               THEN /\ builder' = counted
                    /\ out' = printed
                    /\ hashed' = hashed1
                    /\ UNCHANGED <<pc, exc, disk, openWriters, trail>>
               ELSE /\ builder' = opened
                    /\ out' = printed
                    /\ openWriters' = openWriters \cup {newFilePath}
                    /\ trail' = trail1
                    /\ IF io = "create"
                       THEN /\ Raise("OSError")
                            /\ hashed' = hashed1
                            /\ disk' = disk1
                       ELSE /\ hashed' = IF createHash
                                         THEN Append(hashed1, <<fp, defaultChecksumAlgorithm>>)
                                         ELSE hashed1
                            /\ disk' = Stored(disk1, newFilePath,
                                   Append(disk1[newFilePath], ManifestLine(fp, written)))
                            /\ UNCHANGED <<pc, exc>>
    /\ UNCHANGED <<envVars, cmdVars, tree, disk0, fileList, rc>>

\* __process, `if not self.__create: return missingCount == 0 and damagedCount == 0`
VerifyResult ==
    /\ cmdPc = "run"
    /\ pc = "files"
    /\ fileNo = Len(fileList)
    /\ ~builder.create
    /\ rc' = <<builder.missingCount = 0 /\ builder.damagedCount = 0>>
    /\ pc' = "cleanup"
    /\ UNCHANGED <<envVars, cmdVars, tree, disk, disk0, openWriters, builder, fileList, fileNo,
                   exc, faultsLeft, hashed, out, trail>>

\* a success test that forgets the damaged files
CommitSuccessMissingOnly(b) == b.missingCount = 0

\* `success` of __commitNewIndex; __removeOldIndex is called with its negation
CommitSuccess(b) == b.missingCount = 0 /\ b.damagedCount = 0

\* a review hold that leaves the temporary path with the builder
ReviewHoldKeepsPath(b) == b

\* __commitNewIndex, review hold: `self.__newIndexFilePath = None`
ReviewHold(b) == [b EXCEPT !.newIndexFilePath = None]

\* __closeNewIndexWriter: the builder's writer field after the call
WriterClosed(b) == [b EXCEPT !.newIndexWriter = None]

\* __commitNewIndex up to the choice between review hold and replacement.
\* io: the close of the writer fails with an I/O error.
CommitNewIndex ==
    /\ cmdPc = "run"
    /\ pc = "files"
    /\ fileNo = Len(fileList)
    /\ builder.create
    /\ openWriters' = openWriters \ {builder.newIndexWriter}
    /\ \E io \in BOOLEAN :
        /\ io => faultsLeft > 0 /\ builder.newIndexWriter # None
        /\ faultsLeft' = IF io THEN faultsLeft - 1 ELSE faultsLeft
        /\ IF io
           THEN /\ Raise("OSError")
                /\ builder' = WriterClosed(builder)
                /\ UNCHANGED <<out, rc>>
           ELSE LET b == WriterClosed(builder)
                    newIndexFile == b.newIndexFilePath
                    out1 == IF newIndexFile = None
                            THEN Append(out, Line("no files found", 0, ""))
                            ELSE out
                IN  IF ~CommitSuccess(b) /\ b.reviewChanges
                    THEN /\ builder' = ReviewHold(b)
                         /\ out' = IF newIndexFile # None
                                   THEN Append(out1, Line("new index", 0, newIndexFile))
                                   ELSE out1
                         /\ rc' = <<FALSE>>
                         /\ pc' = "cleanup"
                         /\ UNCHANGED exc
                    ELSE /\ builder' = b
                         /\ out' = out1
                         /\ pc' = "removeOldIndex"
                         /\ UNCHANGED <<exc, rc>>
    /\ UNCHANGED <<envVars, cmdVars, tree, disk, disk0, fileList, fileNo, hashed, trail>>

\* __removeOldIndex( not success ).  io names the call that fails:
\* "unlink" the unlink of the old manifest or of the prior backup,
\* "rename" the rename of the old manifest to its backup name.
RemoveOldIndex ==
    /\ cmdPc = "run"
    /\ pc = "removeOldIndex"
    /\ LET oldIndexFile == builder.oldIndexFilePath
           makeBackup == ~CommitSuccess(builder)
           backupFileName == BackupName(oldIndexFile)
           hadBackup == Exists(disk, backupFileName)
       IN  IF oldIndexFile = None
           THEN /\ pc' = "renameNewIndex"
                /\ UNCHANGED <<builder, disk, trail, exc, faultsLeft>>
           ELSE /\ builder' = [builder EXCEPT !.oldIndexFilePath = None]
                /\ \E io \in {"none", "unlink", "rename"} :
                    /\ io # "none" => faultsLeft > 0
                    /\ io = "unlink" => ~makeBackup \/ hadBackup
                    /\ io = "rename" => makeBackup
                    /\ faultsLeft' = IF io = "none" THEN faultsLeft ELSE faultsLeft - 1
                    /\ IF ~makeBackup
                       THEN /\ trail' = Append(trail,
                                   FsStep("unlink", oldIndexFile, "", io = "none"))
                            /\ IF io = "none"
                               THEN /\ disk' = Unlinked(disk, oldIndexFile)
                                    /\ pc' = "renameNewIndex"
                                    /\ UNCHANGED exc
                               ELSE /\ Raise("OSError")
                                    /\ UNCHANGED disk
                       ELSE LET trail1 == IF hadBackup
                                          THEN Append(trail, FsStep("unlink",
                                                   backupFileName, "", io # "unlink"))
                                          ELSE trail
                            IN  IF io = "unlink"
                                THEN /\ Raise("OSError")
                                     /\ trail' = trail1
                                     /\ UNCHANGED disk
                                ELSE /\ trail' = Append(trail1, FsStep("rename",
                                            oldIndexFile, backupFileName, io = "none"))
                                     /\ IF io = "none"
                                        THEN /\ disk' = Renamed(Unlinked(disk, backupFileName),
                                                              oldIndexFile, backupFileName)
                                             /\ pc' = "renameNewIndex"
                                             /\ UNCHANGED exc
                                        ELSE /\ Raise("OSError")
                                             /\ disk' = Unlinked(disk, backupFileName)
    /\ UNCHANGED <<envVars, cmdVars, tree, disk0, openWriters, fileList, fileNo, rc, hashed, out>>

\* __renameNewIndex, then `return True` of __commitNewIndex.
\* io: the rename of the temporary manifest fails with an I/O error.
RenameNewIndex ==
    /\ cmdPc = "run"
    /\ pc = "renameNewIndex"
    /\ LET newIndexFile == builder.newIndexFilePath
       IN  IF newIndexFile = None
           THEN /\ rc' = <<TRUE>>
                /\ pc' = "cleanup"
                /\ UNCHANGED <<builder, disk, trail, exc, faultsLeft, openWriters>>
           ELSE /\ builder' = [WriterClosed(builder) EXCEPT !.newIndexFilePath = None]
                /\ openWriters' = openWriters \ {builder.newIndexWriter}
                /\ \E io \in BOOLEAN :
                    /\ io => faultsLeft > 0
                    /\ faultsLeft' = IF io THEN faultsLeft - 1 ELSE faultsLeft
                    /\ trail' = Append(trail,
                           FsStep("rename", newIndexFile, GetIndexFilePath, ~io))
                    /\ IF io
                       THEN /\ Raise("OSError")
                            /\ UNCHANGED <<disk, rc>>
                       ELSE /\ disk' = Renamed(disk, newIndexFile, GetIndexFilePath)
                            /\ rc' = <<TRUE>>
                            /\ pc' = "cleanup"
                            /\ UNCHANGED exc
    /\ UNCHANGED <<envVars, cmdVars, tree, disk0, fileList, fileNo, hashed, out>>

\* __cleanup, the `finally` of run.  io: the unlink of the temporary
\* manifest fails; the error is printed, not raised.
Cleanup ==
    /\ cmdPc = "run"
    /\ pc = "cleanup"
    /\ LET newIndexFile == builder.newIndexFilePath
       IN  /\ builder' = [WriterClosed(builder) EXCEPT !.newIndexFilePath = None]
           /\ openWriters' = openWriters \ {builder.newIndexWriter}
           /\ IF newIndexFile = None
              THEN UNCHANGED <<disk, trail, out, faultsLeft>>
              ELSE \E io \in BOOLEAN :
                    /\ io => faultsLeft > 0
                    /\ faultsLeft' = IF io THEN faultsLeft - 1 ELSE faultsLeft
                    /\ trail' = Append(trail, FsStep("unlink", newIndexFile, "", ~io))
                    /\ disk' = IF io THEN disk ELSE Unlinked(disk, newIndexFile)
                    /\ out' = IF io THEN Append(out, Line("Error removing", 0, newIndexFile))
                              ELSE out
    /\ pc' = IF exc = None THEN "summary" ELSE "raised"
    /\ UNCHANGED <<envVars, cmdVars, tree, disk0, fileList, fileNo, exc, rc, hashed>>

\* the summary line of run
SummaryText(b) ==
    IF b.missingCount > 0 \/ b.damagedCount > 0 \/ b.newCount > 0 THEN "counts" ELSE "OK"

\* run after the try/finally: print the summary, `return rc`
Summary ==
    /\ cmdPc = "run"
    /\ pc = "summary"
    /\ out' = Append(out, Line("summary", 0, SummaryText(builder)))
    /\ pc' = "returned"
    /\ UNCHANGED <<envVars, cmdVars, tree, disk, disk0, openWriters, builder, fileList, fileNo,
                   exc, rc, faultsLeft, hashed, trail>>

Counted(b) == b.missingCount > 0 \/ b.damagedCount > 0 \/ b.newCount > 0

\* a flag that remembers only the last run
NextSuccessLastOnly(s, returned) == returned

\* indexCmdMain: `if not indexBuilder.run(): success = False`
NextSuccess(s, returned) == IF ~returned THEN FALSE ELSE s

\* indexCmdMain: `return 0 if success else 1`
ExitCodeOf(s) == IF s THEN 0 ELSE 1

RunReturned ==
    /\ cmdPc = "run"
    /\ pc = "returned"
    /\ success' = NextSuccess(success, rc[1])
    /\ runs' = Append(runs, [ended |-> IF rc[1] THEN "True" ELSE "False",
                              counted |-> Counted(builder)])
    /\ cmdPc' = "loop"
    /\ DiscardRun
    /\ UNCHANGED <<envVars, cmdArgs, folderNo, exitCode, faultsLeft>>

\* indexCmdMain: `except FileDb.IndexValidationError: return 2`; any other
\* exception leaves indexCmdMain
RunRaised ==
    /\ cmdPc = "run"
    /\ pc = "raised"
    /\ IF exc = "IndexValidationError"
       THEN /\ exitCode' = <<2>>
            /\ cmdPc' = "returned"
       ELSE /\ cmdPc' = "raised"
            /\ UNCHANGED exitCode
    /\ runs' = Append(runs, [ended |-> exc, counted |-> Counted(builder)])
    /\ UNCHANGED <<envVars, cmdArgs, folderNo, success, faultsLeft, runVars>>

\* indexCmdMain after the last folder: `return 0 if success else 1`
ReturnExitCode ==
    /\ cmdPc = "loop"
    /\ folderNo >= 1
    /\ exitCode' = <<ExitCodeOf(success)>>
    /\ cmdPc' = "returned"
    /\ UNCHANGED <<envVars, cmdArgs, folderNo, success, runs, faultsLeft, runVars>>

Next ==
    \/ BeginFolder
    \/ ReadOldIndex
    \/ ScanTree
    \/ CheckMissing
    \/ ProcessFile
    \/ VerifyResult
    \/ CommitNewIndex
    \/ RemoveOldIndex
    \/ RenameNewIndex
    \/ Cleanup
    \/ Summary
    \/ RunReturned
    \/ RunRaised
    \/ ReturnExitCode

Spec == Init /\ [][Next]_vars

\* ------------------------------------------------------------------------
\* Two runs over one folder: an IndexBuilder run (create, or verify) and
\* then a verify run with the same walker and the same manifest name, the
\* folder left as the first run left it.  The manifest name may be given
\* explicitly and the walker may have no excluded globs.  No I/O error is
\* injected.
\* ------------------------------------------------------------------------
InitRerun ==
    /\ cmdArgs \in [indexAction : {"create", "verify"},
                    changesMode : {"reject", "review", "accept"},
                    reuseChecksums : BOOLEAN,
                    checksumFile : {None, ExplicitName}]
    /\ excluded \in {CliExcluded, {}}
    /\ firstRun = NoFirstRun
    /\ NoLibrary
    /\ cmdPc = "loop"
    /\ folderNo = 0
    /\ success = TRUE
    /\ exitCode = << >>
    /\ runs = << >>
    /\ faultsLeft = 0
    /\ NoRun

\* IndexBuilder( folder, indexFileName, fileTreeIterator, ... ).run() over a
\* folder as found.  A create run is not given a folder in which the walker
\* lists index files left by earlier runs.
FirstRun ==
    /\ cmdPc = "loop"
    /\ folderNo = 0
    /\ \E t \in SUBSET Paths, oldName \in {None, Sha2Name, Sha1Name, ExplicitName},
          algorithm \in Algorithms, rec \in [Paths -> Recorded], hasBackup \in BOOLEAN :
          LET d == FolderDisk(oldName, algorithm, rec, hasBackup)
          IN  /\ cmdArgs.indexAction = "create" =>
                    \A n \in DOMAIN d : ~checkName(n, excluded)
              /\ tree' = t
              /\ disk' = d
              /\ disk0' = d
    /\ cmdPc' = "run"
    /\ folderNo' = 1
    /\ builder' = NewBuilder(cmdArgs)
    /\ pc' = "process"
    /\ fileList' = << >>
    /\ fileNo' = 0
    /\ exc' = None
    /\ rc' = << >>
    /\ openWriters' = {}
    /\ hashed' = << >>
    /\ out' = << >>
    /\ trail' = << >>
    /\ UNCHANGED <<envVars, cmdArgs, success, exitCode, runs, faultsLeft>>

\* the counts and the summary a run ended with
RunOutcome(args, b, ended, returned, printed) ==
    [ ended |-> ended,
      rc |-> returned,
      counts |-> <<b.missingCount, b.damagedCount, b.newCount>>,
      summary |-> IF \E i \in DOMAIN printed : printed[i].tag = "summary"
                  THEN (CHOOSE l \in Range(printed) : l.tag = "summary").text
                  ELSE None,
      action |-> args.indexAction ]

\* a second IndexBuilder, verify-only, over the folder the first run left
RunAgain ==
    /\ cmdPc = "run"
    /\ pc \in {"returned", "raised"}
    /\ firstRun = NoFirstRun
    /\ firstRun' = RunOutcome(cmdArgs, builder,
                              IF pc = "raised" THEN exc ELSE "returned", rc, out)
    /\ cmdArgs' = [cmdArgs EXCEPT !.indexAction = "verify"]
    /\ builder' = NewBuilder([cmdArgs EXCEPT !.indexAction = "verify"])
    /\ disk0' = disk
    /\ pc' = "process"
    /\ fileList' = << >>
    /\ fileNo' = 0
    /\ exc' = None
    /\ rc' = << >>
    /\ openWriters' = {}
    /\ hashed' = << >>
    /\ out' = << >>
    /\ trail' = << >>
    /\ UNCHANGED <<cmdPc, folderNo, success, exitCode, runs, tree, disk, faultsLeft,
                   excluded, libVars>>

NextRerun ==
    \/ FirstRun
    \/ RunAgain
    \/ ReadOldIndex
    \/ ScanTree
    \/ CheckMissing
    \/ ProcessFile
    \/ VerifyResult
    \/ CommitNewIndex
    \/ RemoveOldIndex
    \/ RenameNewIndex
    \/ Cleanup
    \/ Summary

SpecRerun == InitRerun /\ [][NextRerun]_vars

\* ------------------------------------------------------------------------
\* One run over a folder that may hold the explicitly named manifest,
\* Checksums.sha2 and Checksums.sha1 side by side, for every action of the
\* index command, with and without --checksum-file.  No I/O error is
\* injected.
\* ------------------------------------------------------------------------
InitOldIndex ==
    /\ cmdArgs \in [indexAction : {"create", "update", "verify"},
                    changesMode : {"reject", "review", "accept"},
                    reuseChecksums : BOOLEAN,
                    checksumFile : {None, ExplicitName}]
    /\ excluded = CliExcluded
    /\ firstRun = NoFirstRun
    /\ NoLibrary
    /\ cmdPc = "loop"
    /\ folderNo = 0
    /\ success = TRUE
    /\ exitCode = << >>
    /\ runs = << >>
    /\ faultsLeft = 0
    /\ NoRun

\* a folder with a legacy manifest of its own next to the other index files
WithLegacy(d) == Stored(d, Sha1Name, PriorBackup)

\* IndexBuilder( folder, indexFileName, fileTreeIterator, ... ).run() over a
\* folder as found.  A run that creates is not given a folder in which the
\* walker lists index files left by earlier runs.
BeginRun ==
    /\ cmdPc = "loop"
    /\ folderNo = 0
    /\ \E t \in SUBSET Paths, oldName \in {None, Sha2Name, Sha1Name, ExplicitName},
          algorithm \in Algorithms, rec \in [Paths -> Recorded], legacy \in BOOLEAN :
          LET found == FolderDisk(oldName, algorithm, rec, FALSE)
              d == IF legacy /\ oldName \in {Sha2Name, ExplicitName}
                   THEN WithLegacy(found) ELSE found
          IN  /\ cmdArgs.indexAction # "verify" =>
                    \A n \in DOMAIN d : ~checkName(n, excluded)
              /\ tree' = t
              /\ disk' = d
              /\ disk0' = d
    /\ cmdPc' = "run"
    /\ folderNo' = 1
    /\ builder' = NewBuilder(cmdArgs)
    /\ pc' = "process"
    /\ fileList' = << >>
    /\ fileNo' = 0
    /\ exc' = None
    /\ rc' = << >>
    /\ openWriters' = {}
    /\ hashed' = << >>
    /\ out' = << >>
    /\ trail' = << >>
    /\ UNCHANGED <<envVars, cmdArgs, success, exitCode, runs, faultsLeft>>

NextOldIndex ==
    \/ BeginRun
    \/ ReadOldIndex
    \/ ScanTree
    \/ CheckMissing
    \/ ProcessFile
    \/ VerifyResult
    \/ CommitNewIndex
    \/ RemoveOldIndex
    \/ RenameNewIndex
    \/ Cleanup
    \/ Summary

SpecOldIndex == InitOldIndex /\ [][NextOldIndex]_vars

\* ------------------------------------------------------------------------
\* The index command over several folders, the folders it is done with kept:
\* folders with and without a manifest, the first file present or gone, the
\* first file recorded as it is, recorded with another checksum or not recorded.
\* No I/O error is injected.
\* ------------------------------------------------------------------------
InitFolders ==
    /\ cmdArgs \in [indexAction : {"create", "update", "verify"},
                    changesMode : {"reject", "review", "accept"},
                    reuseChecksums : {FALSE},
                    checksumFile : {None}]
    /\ excluded = CliExcluded
    /\ firstRun = NoFirstRun
    /\ NoFileDb
    /\ NoTree
    /\ NoCodec
    /\ NoTemp
    /\ NoIter
    /\ shelf = << >>
    /\ NoRestore
    /\ cmdPc = "loop"
    /\ folderNo = 0
    /\ success = TRUE
    /\ exitCode = << >>
    /\ runs = << >>
    /\ faultsLeft = 0
    /\ NoRun

\* what the first file's record says of it, the other files recorded as
\* they are
FirstRecorded(kind) == [p \in Paths |-> IF p = 1 THEN kind ELSE "good"]

\* for folder in folders: indexBuilder = IndexBuilder( ... ); indexBuilder.run()
NextFolder ==
    /\ cmdPc = "loop"
    /\ folderNo < MaxFolders
    /\ \E t \in {Paths, Paths \ {1}}, oldName \in {None, Sha2Name}, kind \in Recorded :
          /\ tree' = t
          /\ disk' = FolderDisk(oldName, defaultChecksumAlgorithm, FirstRecorded(kind), FALSE)
          /\ disk0' = FolderDisk(oldName, defaultChecksumAlgorithm, FirstRecorded(kind), FALSE)
    /\ cmdPc' = "run"
    /\ folderNo' = folderNo + 1
    /\ builder' = NewBuilder(cmdArgs)
    /\ pc' = "process"
    /\ fileList' = << >>
    /\ fileNo' = 0
    /\ exc' = None
    /\ rc' = << >>
    /\ openWriters' = {}
    /\ hashed' = << >>
    /\ out' = << >>
    /\ trail' = << >>
    /\ UNCHANGED <<envVars, cmdArgs, success, exitCode, runs, faultsLeft>>

\* the folder the command is done with
Shelved(ended) ==
    [ ended |-> ended, tree |-> tree, disk0 |-> disk0, disk |-> disk,
      promoted |-> \E i \in DOMAIN trail :
                      trail[i] = FsStep("rename", TempName, Sha2Name, TRUE) ]

\* an abort taken for a failure
AbortExitCodeAsFailure(e) == IF e = "IndexValidationError" THEN <<1>> ELSE << >>

\* indexCmdMain, `except FileDb.IndexValidationError as e: ... return 2`
AbortExitCode(e) == IF e = "IndexValidationError" THEN <<2>> ELSE << >>

\* indexBuilder.run() returned: `if not indexBuilder.run(): success = False`
FolderReturned ==
    /\ cmdPc = "run"
    /\ pc = "returned"
    /\ success' = NextSuccess(success, rc[1])
    /\ runs' = Append(runs, [ended |-> IF rc[1] THEN "True" ELSE "False",
                              counted |-> Counted(builder)])
    /\ shelf' = Append(shelf, Shelved(IF rc[1] THEN "True" ELSE "False"))
    /\ cmdPc' = "loop"
    /\ DiscardRun
    /\ UNCHANGED <<excluded, firstRun, dbVars, treeVars, codecVars, tempVars, iterVars, restore,
                   cmdArgs, folderNo, exitCode, faultsLeft>>

\* indexBuilder.run() raised: the loop is left
FolderRaised ==
    /\ cmdPc = "run"
    /\ pc = "raised"
    /\ exitCode' = AbortExitCode(exc)
    /\ cmdPc' = IF exc = "IndexValidationError" THEN "returned" ELSE "raised"
    /\ runs' = Append(runs, [ended |-> exc, counted |-> Counted(builder)])
    /\ shelf' = Append(shelf, Shelved(exc))
    /\ DiscardRun
    /\ UNCHANGED <<excluded, firstRun, dbVars, treeVars, codecVars, tempVars, iterVars, restore,
                   cmdArgs, folderNo, success, faultsLeft>>

NextFolders ==
    \/ NextFolder
    \/ ReadOldIndex
    \/ ScanTree
    \/ CheckMissing
    \/ ProcessFile
    \/ VerifyResult
    \/ CommitNewIndex
    \/ RemoveOldIndex
    \/ RenameNewIndex
    \/ Cleanup
    \/ Summary
    \/ FolderReturned
    \/ FolderRaised
    \/ ReturnExitCode

SpecFolders == InitFolders /\ [][NextFolders]_vars

\* ------------------------------------------------------------------------
\* A FileDb and the calls a client makes on it
\* ------------------------------------------------------------------------
NoCommand ==
    /\ cmdArgs = [indexAction |-> "verify", changesMode |-> "reject",
                  reuseChecksums |-> FALSE, checksumFile |-> None]
    /\ cmdPc = "none"
    /\ folderNo = 0
    /\ success = TRUE
    /\ exitCode = << >>
    /\ runs = << >>
    /\ faultsLeft = 0
    /\ excluded = {}
    /\ firstRun = NoFirstRun
    /\ NoRun

commandVars == <<cmdVars, runVars, faultsLeft, excluded, firstRun>>

builderVars == <<commandVars, toolVars>>

InitFileDb ==
    /\ NoCommand
    /\ NoLibrary

\* db.addFile( filePath, checksum )
CallAddFile ==
    /\ dbCalls < MaxAdds
    /\ \E filePath \in DbPaths, checksum \in DbChecksums :
          /\ fileDb' = addFile(fileDb, filePath, checksum)
          /\ dbResult' = DbResult("addFile", filePath, checksum, fileDb,
                                  IF addFileRaises(checksum) THEN "ValueError" ELSE None,
                                  << >>, NoInfo)
    /\ dbCalls' = dbCalls + 1
    /\ UNCHANGED <<builderVars, treeVars, codecVars>>

\* db.findFile( filePath ) for a file with the bytes of file p
CallFindFile ==
    /\ \E filePath \in DbQueries, p \in DbFiles :
          LET found == findFile(fileDb, filePath, p)
          IN  dbResult' = DbResult("findFile", filePath,
                                  calculateChecksum(p, defaultChecksumAlgorithm),
                                  fileDb, None, found.tried, found.value)
    /\ UNCHANGED <<builderVars, treeVars, codecVars, fileDb, dbCalls>>

NextFileDb ==
    \/ CallAddFile
    \/ CallFindFile

SpecFileDb == InitFileDb /\ [][NextFileDb]_vars

\* ------------------------------------------------------------------------
\* FileDb.addIndexedTree over a tree of directories
\* ------------------------------------------------------------------------
InitIndexedTree ==
    /\ NoCommand
    /\ NoTools
    /\ NoFileDb
    /\ NoCodec
    /\ dirTree \in [Dirs -> [sha2 : IndexKinds, sha1 : IndexKinds]]
    /\ walk = << >>
    /\ visited = << >>
    /\ loaded = << >>

\* __addIndexedTree( basePath, relativePath ) up to its scandir loop, called
\* with the active calls `calls` suspended
EnterDirectory(calls, relativePath) ==
    LET entry == dirTree[relativePath]
        indexFileName == FirstIndexFile(entry)
        read == addChecksumFile(fileDb, relativePath,
                                IndexLines(indexFileName, KindOf(entry, indexFileName)), 1)
    IN  /\ visited' = Append(visited, relativePath)
        /\ IF indexFileName # None
           THEN /\ loaded' = Append(loaded, [dir |-> relativePath, name |-> indexFileName])
                /\ fileDb' = read.db
                /\ walk' = IF read.raised # None THEN << >> ELSE calls
                /\ dbResult' = DbResult("addIndexedTree", DbPath("", ""), NoChecksum,
                                        NewFileDb, read.raised, << >>, NoInfo)
           ELSE /\ walk' = Append(calls, Frame(relativePath, Subdirs(relativePath)))
                /\ dbResult' = DbResult("addIndexedTree", DbPath("", ""), NoChecksum,
                                        NewFileDb, None, << >>, NoInfo)
                /\ UNCHANGED <<loaded, fileDb>>

\* db.addIndexedTree( basePath )
CallAddIndexedTree ==
    /\ dbResult.op = "none"
    /\ EnterDirectory(<< >>, << >>)
    /\ UNCHANGED <<builderVars, codecVars, dbCalls, dirTree>>

\* the scandir loop of the innermost call yields a directory, in whatever
\* order the platform lists them, and __addIndexedTree is called for it
ScanNextDirectory ==
    /\ walk # << >>
    /\ \E e \in walk[Len(walk)].pending :
          EnterDirectory([walk EXCEPT ![Len(walk)].pending = @ \ {e}], e)
    /\ UNCHANGED <<builderVars, codecVars, dbCalls, dirTree>>

\* the scandir loop of the innermost call is exhausted: the call returns
LeaveDirectory ==
    /\ walk # << >>
    /\ walk[Len(walk)].pending = {}
    /\ walk' = SubSeq(walk, 1, Len(walk) - 1)
    /\ UNCHANGED <<builderVars, codecVars, dbVars, dirTree, visited, loaded>>

NextIndexedTree ==
    \/ CallAddIndexedTree
    \/ ScanNextDirectory
    \/ LeaveDirectory

SpecIndexedTree == InitIndexedTree /\ [][NextIndexedTree]_vars

\* ------------------------------------------------------------------------
\* A manifest written, or stored by another tool, and read back
\* ------------------------------------------------------------------------
InitCodec ==
    /\ NoCommand
    /\ NoTools
    /\ NoFileDb
    /\ NoTree
    /\ flavour \in {"posix", "windows"}
    /\ manifest = NoManifest
    /\ readBack = NotRead

\* with ChecksumFileWriter( ... ) as writer: writer.write( fp, c ) for each pair
WriteManifest ==
    /\ manifest.origin = "none"
    /\ \E pairs \in SeqsUpTo({Pair(fp, c) : fp \in PathsOver(CodecNames(flavour)),
                                            c \in CodecChecksums}, MaxLines) :
          /\ pairs # << >>
          /\ manifest' = [origin |-> "writer", name |-> Sha2Name, pairs |-> pairs,
                          text |-> [i \in DOMAIN pairs |->
                                       WriteLine(pairs[i].path, pairs[i].sum)]]
    /\ UNCHANGED <<builderVars, dbVars, treeVars, flavour, readBack>>

\* a one-line manifest of another tool is found on disk
StoreManifest ==
    /\ manifest.origin = "none"
    /\ \E fp \in PathsOver(PlainNames), c \in CodecChecksums, sep \in {"/", "\\"},
          dotPrefix \in BOOLEAN, marker \in {<<"*">>, <<" ">>, << >>},
          eol \in {<< >>, <<"\r">>} :
          manifest' = [origin |-> "other", name |-> Sha2Name, pairs |-> <<Pair(fp, c)>>,
                       text |-> <<StoredLine(fp, c, sep, dotPrefix, marker, eol)>>]
    /\ UNCHANGED <<builderVars, dbVars, treeVars, flavour, readBack>>

\* with ChecksumFileReader( ... ) as reader: for fp, c in reader
ReadManifest ==
    /\ manifest.origin # "none"
    /\ ~readBack.done
    /\ LET read == ReadLines(manifest.text, 1, flavour)
       IN  readBack' = [done |-> TRUE, pairs |-> read.pairs, raised |-> read.raised,
                        message |-> ReadMessage(read, manifest.name)]
    /\ UNCHANGED <<builderVars, dbVars, treeVars, flavour, manifest>>

NextCodec ==
    \/ WriteManifest
    \/ StoreManifest
    \/ ReadManifest

SpecCodec == InitCodec /\ [][NextCodec]_vars

\* ------------------------------------------------------------------------
\* A manifest loaded into a FileDb
\* ------------------------------------------------------------------------
InitLoad ==
    /\ NoCommand
    /\ NoTools
    /\ NoTree
    /\ flavour \in {"posix", "windows"}
    /\ manifest \in {[origin |-> "other", name |-> Sha2Name, pairs |-> << >>, text |-> t] :
                        t \in SeqsUpTo(LoadLines, MaxLines + 1)}
    /\ readBack = NotRead
    /\ fileDb \in {NewFileDb,
                    addFile(NewFileDb, AsDbPath(<<<<"p">>>>), ChecksumOf(Hex(40, "f")))}
    /\ dbCalls = 0
    /\ dbResult = NoDbResult

\* db.addChecksumFile( basePath, fileName )
CallAddChecksumFile ==
    /\ dbResult.op = "none"
    /\ \E basePath \in LoadBases :
          LET load == LoadChecksumFile(fileDb, basePath, manifest.name,
                                       manifest.text, flavour)
          IN  /\ fileDb' = load.db
              /\ dbResult' = DbResult("addChecksumFile", DbPath(basePath, << >>),
                                      NoChecksum, fileDb, load.raised, << >>, NoInfo)
              /\ readBack' = [done |-> TRUE, pairs |-> << >>, raised |-> load.raised,
                              message |-> load.message]
    /\ dbCalls' = dbCalls + 1
    /\ UNCHANGED <<builderVars, treeVars, flavour, manifest>>

NextLoad == CallAddChecksumFile

SpecLoad == InitLoad /\ [][NextLoad]_vars

\* ------------------------------------------------------------------------
\* Create runs under way over one folder at the same time, each at its file
\* loop; the folder may hold temporary manifests that earlier runs left
\* ------------------------------------------------------------------------
\* the names __openNewIndex can come to test
TempNames == {NewFilePath(c, t) : c \in 1..MaxClock, t \in Tokens \cup {""}}

\* what earlier runs left behind: nothing, the name of the first second,
\* every name of the first second, every name
LeftOver ==
    { {}, {NewFilePath(1, "")}, {n \in TempNames : n.stamp = 1}, TempNames }

InitTemp ==
    /\ NoCommand
    /\ NoFileDb
    /\ NoTree
    /\ NoCodec
    /\ NoIter
    /\ clock = 1
    /\ \E left \in LeftOver : tempFiles = [n \in left |-> 0]
    /\ \E fileCount \in 0..MaxFiles : runners = [r \in Runners |-> NewRunner(fileCount)]
    /\ writersOpened = << >>
    /\ NoShelf
    /\ NoRestore

\* a second passes
Tick ==
    /\ clock < MaxClock
    /\ clock' = clock + 1
    /\ UNCHANGED <<commandVars, dbVars, treeVars, codecVars, shelf, restore, iterVars, tempFiles, runners, writersOpened>>

\* __processFile for the next file, `if self.__create: self.__openNewIndex()`
\* up to the first test of a candidate
OpenNewIndex(r) ==
    LET run == runners[r]
    IN  /\ run.pc = "file"
        /\ run.fileNo < run.fileCount
        /\ runners' = [runners EXCEPT ![r] =
               IF run.newIndexFilePath # NoPath
               THEN [run EXCEPT !.pc = "write"]
               ELSE [run EXCEPT !.pc = "test", !.stamp = clock,
                                !.newFilePath = NewFilePath(clock, ""), !.attempt = 0]]
        /\ UNCHANGED <<commandVars, dbVars, treeVars, codecVars, shelf, restore, iterVars, clock, tempFiles, writersOpened>>

\* one candidate more tested
GivesUpLate(attempt) == attempt > MaxAttempts

\* __openNewIndex, `if attempt >= 50`
GivesUp(attempt) == attempt >= MaxAttempts

\* one turn of the loop of __openNewIndex: `if not newFilePath.exists()`
TestCandidate(r) ==
    LET run == runners[r]
    IN  /\ run.pc = "test"
        /\ IF run.newFilePath \notin DOMAIN tempFiles
           THEN runners' = [runners EXCEPT ![r] = [run EXCEPT !.pc = "open"]]
           ELSE IF GivesUp(run.attempt + 1)
           THEN runners' = [runners EXCEPT ![r] =
                               [run EXCEPT !.attempt = @ + 1, !.pc = "raised",
                                              !.exc = "FileExistsError"]]
           ELSE \E token \in Tokens :
                   runners' = [runners EXCEPT ![r] =
                                  [run EXCEPT !.attempt = @ + 1,
                                                 !.newFilePath = NewFilePath(run.stamp, token)]]
        /\ UNCHANGED <<commandVars, dbVars, treeVars, codecVars, shelf, restore, iterVars, clock, tempFiles, writersOpened>>

\* self.__newIndexWriter = ChecksumFileWriter( newFilePath ): open( ..., 'wt' )
\* creates the file or truncates it
OpenWriter(r) ==
    LET run == runners[r]
        name == run.newFilePath
    IN  /\ run.pc = "open"
        /\ tempFiles' = [n \in DOMAIN tempFiles \cup {name} |->
                            IF n = name THEN r ELSE tempFiles[n]]
        /\ writersOpened' = Append(writersOpened,
               [runner |-> r, name |-> name, fileNo |-> run.fileNo,
                existed |-> name \in DOMAIN tempFiles,
                chosenBy |-> {q \in Runners \ {r} :
                                \/ runners[q].newIndexFilePath = name
                                \/ runners[q].pc = "open" /\ runners[q].newFilePath = name}])
        /\ runners' = [runners EXCEPT ![r] = [run EXCEPT !.pc = "write",
                                                         !.newIndexFilePath = name]]
        /\ UNCHANGED <<commandVars, dbVars, treeVars, codecVars, shelf, restore, iterVars, clock>>

\* self.__newIndexWriter.write( filePath, checksum )
WriteChecksum(r) ==
    LET run == runners[r]
    IN  /\ run.pc = "write"
        /\ runners' = [runners EXCEPT ![r] = [run EXCEPT !.pc = "file", !.fileNo = @ + 1]]
        /\ UNCHANGED <<commandVars, dbVars, treeVars, codecVars, shelf, restore, iterVars, clock, tempFiles,
                       writersOpened>>

\* the file loop is over: __commitNewIndex renames the temporary manifest
\* to the manifest's name
RenameNew(r) ==
    LET run == runners[r]
        name == run.newIndexFilePath
    IN  /\ run.pc = "file"
        /\ run.fileNo = run.fileCount
        /\ IF name = NoPath
           THEN /\ runners' = [runners EXCEPT ![r] = [run EXCEPT !.pc = "returned"]]
                /\ UNCHANGED tempFiles
           ELSE IF name \in DOMAIN tempFiles
           THEN /\ runners' = [runners EXCEPT ![r] =
                                  [run EXCEPT !.pc = "returned", !.newIndexFilePath = NoPath]]
                /\ tempFiles' = [n \in DOMAIN tempFiles \ {name} |-> tempFiles[n]]
           ELSE /\ runners' = [runners EXCEPT ![r] =
                                  [run EXCEPT !.pc = "raised", !.newIndexFilePath = NoPath,
                                              !.exc = "FileNotFoundError"]]
                /\ UNCHANGED tempFiles
        /\ UNCHANGED <<commandVars, dbVars, treeVars, codecVars, shelf, restore, iterVars, clock, writersOpened>>

NextTemp ==
    \/ Tick
    \/ \E r \in Runners : OpenNewIndex(r)
    \/ \E r \in Runners : TestCandidate(r)
    \/ \E r \in Runners : OpenWriter(r)
    \/ \E r \in Runners : WriteChecksum(r)
    \/ \E r \in Runners : RenameNew(r)

SpecTemp == InitTemp /\ [][NextTemp]_vars

\* ------------------------------------------------------------------------
\* FileTreeIterator.iterate over a tree of files and directories
\* ------------------------------------------------------------------------
\* the directories at depth MaxDepth hold files only
InitIterate ==
    /\ NoCommand
    /\ NoFileDb
    /\ NoTree
    /\ NoCodec
    /\ NoTemp
    /\ \E root \in [RootNames -> {"absent", "file", "dir"}],
          inner \in [1..MaxDepth -> [InnerNames -> {"absent", "file", "dir"}]] :
          /\ \A k \in 1..MaxDepth :
                /\ inner[k][<<"B">>] # "file"
                /\ inner[k][<<"a">>] # "dir"
                /\ inner[k][<<"t", "B">>] # "dir"
          /\ inner[MaxDepth][<<"B">>] = "absent"
          /\ scanned = [k \in 0..MaxDepth |-> IF k = 0 THEN root ELSE inner[k]]
    /\ iteration = NotIterating
    /\ NoShelf
    /\ NoRestore

\* iterate( basePath ) up to its loop
Iterate ==
    /\ iteration.pc = "idle"
    /\ \E iterator \in scanDir(scanned, << >>, WalkExcluded) :
          iteration' = [iteration EXCEPT !.pc = "loop", !.iterator = iterator]
    /\ UNCHANGED <<commandVars, dbVars, treeVars, codecVars, shelf, restore, tempVars, scanned>>

\* one turn of the loop of iterate
NextEntry ==
    LET it == [iteration EXCEPT !.turns = @ + 1]
    IN  /\ iteration.pc = "loop"
        /\ IF it.iterator # << >>
           THEN LET entry == Head(it.iterator)
                    filePath == Append(it.subdir, entry.name)
                IN  IF ~entry.isDir
                    THEN iteration' = [it EXCEPT !.iterator = Tail(@),
                                                 !.yielded = Append(@, filePath)]
                    ELSE \E iterator \in scanDir(scanned, filePath, WalkExcluded) :
                            iteration' = [it EXCEPT
                                             !.iteratorStack = Append(@, Tail(it.iterator)),
                                             !.iterator = iterator,
                                             !.subdir = filePath]
           ELSE IF it.iteratorStack = << >>
           THEN iteration' = [it EXCEPT !.pc = "done"]
           ELSE iteration' = [it EXCEPT
                                 !.subdir = SubSeq(@, 1, Len(@) - 1),
                                 !.iterator = it.iteratorStack[Len(it.iteratorStack)],
                                 !.iteratorStack = SubSeq(@, 1, Len(@) - 1)]
        /\ UNCHANGED <<commandVars, dbVars, treeVars, codecVars, shelf, restore, tempVars, scanned>>

NextIterate ==
    \/ Iterate
    \/ NextEntry

SpecIterate == InitIterate /\ [][NextIterate]_vars

\* ------------------------------------------------------------------------
\* The restore command: restoreCmdMain, RestoreCommand.process and
\* RestoreCommand.__restoreFile. The content index is the set of checksums
\* that db.get finds; a file of a folder is its path and what it holds, the
\* bytes it had before the command ("kept") or the bytes of the stored file
\* with some checksum. The records name files of the folder itself, so
\* MkDirCache.mkdir makes no directory. Every stored file can be read and
\* every manifest is well-formed.
\* ------------------------------------------------------------------------
RestorePaths == {"IMG_1.jpg", "IMG_2.jpg"}

RestoreSums == {"c1", "c2"}

\* the manifests of at most MaxLines records
RestoreManifests ==
    UNION {[1 .. n -> [filePath : RestorePaths, cs : RestoreSums]] : n \in 0 .. MaxLines}

\* the files of a folder before it is restored
RestoreFolders == UNION {[ps -> {"kept"}] : ps \in SUBSET RestorePaths}

InitRestore ==
    /\ NoCommand
    /\ NoFileDb
    /\ NoTree
    /\ NoCodec
    /\ NoTemp
    /\ NoIter
    /\ NoShelf
    /\ \E skipExisting \in BOOLEAN, indexed \in SUBSET RestoreSums :
          restore = [IdleRestore EXCEPT !.pc = "folders",
                                        !.skipExisting = skipExisting,
                                        !.indexed = indexed]

\* FileDb.get: the head of the chain of the files with this checksum, or None
get(indexed, checksum) == IF checksum \in indexed THEN checksum ELSE None

\* what `not x` takes for true of the values __restoreFile returns
Truthy(x) == x = "True"

\* __restoreFile, the statement after shutil.copy2: the method ends without a
\* return statement
RestoreFileCopied == "None"

\* RestoreCommand.__restoreFile( cs, basePath, filePath ): what it returns and
\* the files of basePath afterwards
RestoreFile(r, cs, filePath) ==
    LET fileInfo == get(r.indexed, cs)
    IN  IF fileInfo = None
        THEN [result |-> "False", files |-> r.files, outcome |-> "notFound"]
        ELSE IF filePath \in DOMAIN r.files
        THEN IF r.skipExisting
             THEN [result |-> "True", files |-> r.files, outcome |-> "skipped"]
             ELSE [result |-> "False", files |-> r.files, outcome |-> "existed"]
        ELSE [ result |-> RestoreFileCopied,
               files |-> [p \in DOMAIN r.files \cup {filePath} |->
                            IF p = filePath THEN fileInfo ELSE r.files[p]],
               outcome |-> "copied" ]

\* process: `for folder in folders: with FileDb.ChecksumFileReader( ... ) as reader`
OpenRestoreManifest ==
    /\ restore.pc = "folders"
    /\ restore.folderNo < MaxFolders
    /\ \E recs \in RestoreManifests, present \in RestoreFolders :
          restore' = [restore EXCEPT !.pc = "records",
                                     !.folderNo = @ + 1,
                                     !.manifest = recs,
                                     !.lineNo = 0,
                                     !.files0 = present,
                                     !.files = present,
                                     !.result = ""]
    /\ UNCHANGED <<commandVars, dbVars, treeVars, codecVars, tempVars, iterVars, shelf>>

\* process: `for filePath, cs in reader: if not self.__restoreFile( ... ): success = False`
RestoreRecord ==
    /\ restore.pc = "records"
    /\ restore.lineNo < Len(restore.manifest)
    /\ LET rec == restore.manifest[restore.lineNo + 1]
           done == RestoreFile(restore, rec.cs, rec.filePath)
       IN  restore' = [restore EXCEPT
                         !.lineNo = @ + 1,
                         !.files = done.files,
                         !.result = done.result,
                         !.success = IF ~Truthy(done.result) THEN FALSE ELSE @,
                         !.notFound = @ \/ done.outcome = "notFound",
                         !.existed = @ \/ done.outcome = "existed",
                         !.skipped = @ \/ done.outcome = "skipped",
                         !.copied = @ \/ done.outcome = "copied"]
    /\ UNCHANGED <<commandVars, dbVars, treeVars, codecVars, tempVars, iterVars, shelf>>

\* process: the reader is exhausted and closed
CloseRestoreManifest ==
    /\ restore.pc = "records"
    /\ restore.lineNo = Len(restore.manifest)
    /\ restore' = [restore EXCEPT !.pc = "folders"]
    /\ UNCHANGED <<commandVars, dbVars, treeVars, codecVars, tempVars, iterVars, shelf>>

\* process: `return success`; restoreCmdMain: `return 0 if success else 1`
RestoreReturns ==
    /\ restore.pc = "folders"
    /\ restore.folderNo >= 1
    /\ restore' = [restore EXCEPT !.pc = "returned",
                                  !.rc = <<restore.success>>,
                                  !.exitCode = <<ExitCodeOf(restore.success)>>]
    /\ UNCHANGED <<commandVars, dbVars, treeVars, codecVars, tempVars, iterVars, shelf>>

NextRestore ==
    \/ OpenRestoreManifest
    \/ RestoreRecord
    \/ CloseRestoreManifest
    \/ RestoreReturns

SpecRestore == InitRestore /\ [][NextRestore]_vars

\* ------------------------------------------------------------------------
\* Vocabulary of the properties
\* ------------------------------------------------------------------------
InRun == cmdPc = "run"

RunExited == InRun /\ pc \in {"returned", "raised"}

\* the manifest files the folder held when the builder was constructed
OldNames0 == DOMAIN disk0 \cap {Sha2Name, Sha1Name}

TempCreated == \E i \in DOMAIN trail : trail[i].op = "open" /\ trail[i].name = TempName

Promoted == \E i \in DOMAIN trail : trail[i] = FsStep("rename", TempName, Sha2Name, TRUE)

ReviewHeld == \E i \in DOMAIN out : out[i].tag = "new index" /\ out[i].text = TempName

CleanupUnlinkFailed ==
    \E i \in DOMAIN trail : trail[i] = FsStep("unlink", TempName, "", FALSE)

Printed(tag) == {out[i].path : i \in {j \in DOMAIN out : out[j].tag = tag}}

\* C1 (as claimed): a create-mode run that ends by raising leaves every
\* manifest that existed before the run on disk with unchanged content,
\* under its original name or under its .bak sibling name.
C1_OldManifestKeptOnError ==
    (InRun /\ pc = "raised" /\ builder.create) =>
        \A n \in OldNames0 :
            \/ Exists(disk, n) /\ disk[n] = disk0[n]
            \/ Exists(disk, BackupName(n)) /\ disk[BackupName(n)] = disk0[n]

\* C2 (as claimed): when run exits, returning or raising, no manifest writer
\* is open and a temporary manifest that was created, not promoted and not
\* reported as a review-hold file is gone from disk (granting the claim the
\* case where the cleanup's own unlink fails).
C2_CleanupOnEveryExit ==
    RunExited =>
        /\ openWriters = {}
        /\ builder.newIndexWriter = None
        /\ (TempCreated /\ ~Promoted /\ ~ReviewHeld /\ ~CleanupUnlinkFailed)
               => ~Exists(disk, TempName)

\* C7 (as claimed): a create-mode run over an empty listing that returns
\* has reported 'no files found' and has changed nothing on disk: the old
\* manifest is neither unlinked nor renamed to a backup.
C7_EmptyTreeSkipsCommit ==
    (InRun /\ pc = "returned" /\ builder.create /\ tree = {}) =>
        /\ disk = disk0
        /\ \E i \in DOMAIN out : out[i].tag = "no files found"

\* C8 (as claimed): run returns true exactly when a verify-only run counted
\* no missing and no damaged file, or a create run renamed the new manifest
\* to the canonical name; a reject abort is raised, never returned.
C8_ReturnValue ==
    /\ (InRun /\ pc = "returned") =>
          /\ exc = None
          /\ rc \in {<<TRUE>>, <<FALSE>>}
          /\ rc = <<TRUE>> <=>
                IF ~builder.create
                THEN builder.missingCount = 0 /\ builder.damagedCount = 0
                ELSE Promoted
    /\ (InRun /\ exc = "IndexValidationError") =>
          rc = << >> /\ pc \in {"cleanup", "raised"}

\* the old manifest as the folder held it: path -> recorded checksum
OldManifest0 ==
    IF OldNames0 = {} THEN [p \in {} |-> NoChecksum]
    ELSE LET lines == disk0[CHOOSE n \in OldNames0 : TRUE]
         IN  [p \in {lines[i].path : i \in DOMAIN lines} |->
                 lines[CHOOSE i \in DOMAIN lines : lines[i].path = p].sum]

Recorded0 == DOMAIN OldManifest0
Missing0 == Recorded0 \ tree
New0 == tree \ Recorded0

\* the digest of the file's present bytes, made with the algorithm that the
\* length of the recorded checksum stands for
Recomputed(p) == [len |-> OldManifest0[p].len, data |-> FileData(p)]

Damaged0 == {p \in tree \cap Recorded0 : OldManifest0[p] # Recomputed(p)}

Unclean == builder.missingCount > 0 \/ builder.damagedCount > 0

Unchanged0 == \A n \in DOMAIN disk0 : Exists(disk, n) /\ disk[n] = disk0[n]

LinePaths(lines) == [i \in DOMAIN lines |-> lines[i].path]

Count(tag) == Cardinality({i \in DOMAIN out : out[i].tag = tag})

\* C3: verify with reject policy and a path of the old manifest absent from
\* the listing: the run raises IndexValidationError out of __checkMissing
\* with every missing path reported and counted, before any file is
\* processed or hashed and with the folder's index files untouched.
C3_RejectMissing ==
    (InRun /\ builder.verify /\ builder.rejectChanges /\ Missing0 # {}) =>
        /\ pc \in {"process", "scan", "checkMissing", "cleanup", "raised"}
        /\ disk = disk0
        /\ trail = << >>
        /\ hashed = << >>
        /\ fileNo = 0
        /\ openWriters = {}
        /\ builder.newIndexFilePath = None
        /\ rc = << >>
        /\ pc \in {"cleanup", "raised"} =>
              /\ exc = "IndexValidationError"
              /\ builder.missingCount = Cardinality(Missing0)
              /\ Printed("m") = Missing0
              /\ Count("m") = Cardinality(Missing0)

C3_Witness ==
    /\ InRun /\ pc = "raised" /\ exc = "IndexValidationError"
    /\ builder.verify /\ builder.rejectChanges
    /\ Missing0 # {} /\ tree # {}
    /\ builder.missingCount = 1

FirstDamaged == CHOOSE p \in Damaged0 : \A q \in Damaged0 : p <= q

\* C4: verify with reject policy, reuseChecksums off, nothing missing and a
\* damaged file in the listing: the run never returns and never enters the
\* replacement of the old manifest; it processes no file after the first
\* damaged one and, unless an I/O error ends it earlier, raises
\* IndexValidationError there with damagedCount = 1; when run has exited the
\* temporary manifest opened for earlier files is gone (cleanup unlinks it;
\* it stays only if that unlink itself fails).
C4_RejectDamaged ==
    (InRun /\ builder.verify /\ builder.rejectChanges /\ ~builder.reuseChecksums
        /\ Missing0 = {} /\ Damaged0 # {}) =>
        LET k == Cardinality({q \in tree : q <= FirstDamaged})
        IN  /\ pc \notin {"removeOldIndex", "renameNewIndex", "summary", "returned"}
            /\ rc = << >>
            /\ fileNo <= k
            /\ \A i \in DOMAIN hashed : hashed[i][1] <= FirstDamaged
            /\ \A i \in DOMAIN trail :
                  trail[i].name = TempName /\ trail[i].op \in {"open", "unlink"}
            /\ Unchanged0
            /\ DOMAIN disk \subseteq DOMAIN disk0 \cup {TempName}
            /\ Exists(disk, TempName) =>
                  \A i \in DOMAIN disk[TempName] : disk[TempName][i].path < FirstDamaged
            /\ builder.damagedCount <= 1
            /\ exc = "IndexValidationError" =>
                  /\ fileNo = k
                  /\ builder.damagedCount = 1
                  /\ Printed("d") = {FirstDamaged}
            /\ exc = "OSError" => faultsLeft < MaxFaults
            /\ pc = "raised" =>
                  /\ exc \in {"IndexValidationError", "OSError"}
                  /\ faultsLeft = MaxFaults => exc = "IndexValidationError"
                  /\ builder.newIndexFilePath = None
                  /\ openWriters = {}
                  /\ Exists(disk, TempName) => CleanupUnlinkFailed

C4_Witness ==
    /\ InRun /\ pc = "raised" /\ exc = "IndexValidationError"
    /\ builder.verify /\ builder.rejectChanges /\ ~builder.reuseChecksums
    /\ Damaged0 # {} /\ FirstDamaged > 1 /\ fileNo = 2
    /\ TempCreated /\ ~Exists(disk, TempName)
    /\ builder.damagedCount = 1

\* the checksum a create run writes for a listed file
ExpectedSum(p) ==
    IF builder.verify /\ builder.reuseChecksums /\ p \in Recorded0
          /\ OldManifest0[p].len = 64
    THEN OldManifest0[p]
    ELSE [len |-> 64, data |-> FileData(p)]

ExpectedLines ==
    LET ps == SortedSeq(tree)
    IN  [i \in DOMAIN ps |-> [path |-> ps[i], sum |-> ExpectedSum(ps[i])]]

OldRead == builder.verify /\ OldNames0 # {}
OldName0 == CHOOSE n \in OldNames0 : TRUE

\* the folder after the old manifest was removed (clean run) or moved to
\* its backup name (missing or damaged files counted) and the new manifest
\* was given the canonical name
CommittedDisk ==
    LET old == OldName0
        bak == BackupName(old)
        d1 == IF ~OldRead THEN disk0
              ELSE IF Unclean
              THEN [n \in (DOMAIN disk0 \ {old}) \cup {bak} |->
                       IF n = bak THEN disk0[old] ELSE disk0[n]]
              ELSE [n \in DOMAIN disk0 \ {old} |-> disk0[n]]
    IN  [n \in DOMAIN d1 \cup {Sha2Name} |->
            IF n = Sha2Name THEN ExpectedLines ELSE d1[n]]

\* C5: create with review policy (reject off).  A run that counted a missing
\* or damaged file and wrote a new manifest returns false with every index
\* file of the folder as it was, the new manifest kept under its temporary
\* name (reported, not unlinked by cleanup) and the canonical name not
\* written; a run that counted none commits as the accept policy does:
\* returns true with the old manifest deleted and the new one under the
\* canonical name.
C5_ReviewHold ==
    (InRun /\ pc = "returned" /\ builder.create /\ builder.reviewChanges
        /\ ~builder.rejectChanges) =>
        /\ (Unclean /\ TempCreated) =>
              /\ rc = <<FALSE>>
              /\ Unchanged0
              /\ DOMAIN disk = DOMAIN disk0 \cup {TempName}
              /\ disk[TempName] = ExpectedLines
              /\ ReviewHeld
              /\ trail = <<FsStep("open", TempName, "", TRUE)>>
        /\ (~Unclean /\ TempCreated) =>
              /\ rc = <<TRUE>>
              /\ disk = CommittedDisk
              /\ ~ReviewHeld

C5_Witness ==
    /\ InRun /\ pc = "returned" /\ rc = <<FALSE>>
    /\ builder.create /\ builder.reviewChanges /\ ~builder.rejectChanges
    /\ builder.damagedCount > 0 /\ builder.missingCount > 0
    /\ TempCreated /\ Exists(disk, TempName) /\ OldNames0 # {}

\* the file-system steps of a commit, in order
CommitSteps ==
    LET old == OldName0
        bak == BackupName(old)
    IN  (IF ~OldRead THEN << >>
         ELSE IF ~Unclean THEN <<FsStep("unlink", old, "", TRUE)>>
         ELSE (IF Exists(disk0, bak) THEN <<FsStep("unlink", bak, "", TRUE)>> ELSE << >>)
              \o <<FsStep("rename", old, bak, TRUE)>>)
        \o <<FsStep("rename", TempName, Sha2Name, TRUE)>>

IsPrefix(s, t) == Len(s) <= Len(t) /\ \A i \in DOMAIN s : s[i] = t[i]

\* C6: in the commit phase of a create run with a new manifest written
\* (clean, or not under review policy): an old manifest that was read is
\* renamed to its .bak sibling when missing or damaged files were counted,
\* a prior backup being unlinked first, and is unlinked when the run was
\* clean; the rename of the temporary manifest to the canonical name is
\* attempted only after that succeeded; after the commit the canonical name
\* holds the new manifest and the temporary name is gone.
C6_CommitOrder ==
    (InRun /\ builder.create /\ TempCreated
        /\ pc \in {"renameNewIndex", "cleanup", "summary", "returned", "raised"}
        /\ (~Unclean \/ ~builder.reviewChanges)) =>
        LET steps == <<FsStep("open", TempName, "", TRUE)>> \o CommitSteps
        IN  /\ (\E i \in DOMAIN trail : trail[i].op = "rename" /\ trail[i].name = TempName)
                  => IsPrefix(SubSeq(steps, 1, Len(steps) - 1), trail)
            /\ pc = "renameNewIndex" => trail = SubSeq(steps, 1, Len(steps) - 1)
            /\ rc = <<TRUE>> =>
                  /\ trail = steps
                  /\ disk = CommittedDisk
                  /\ ~Exists(disk, TempName)

C6_Witness ==
    /\ InRun /\ pc = "returned" /\ rc = <<TRUE>>
    /\ builder.create /\ ~builder.reviewChanges /\ TempCreated
    /\ Unclean /\ OldRead /\ Exists(disk0, BackupName(OldName0))
    /\ Exists(disk, BackupName(OldName0))
    /\ disk[BackupName(OldName0)] = disk0[OldName0]
    /\ disk[BackupName(OldName0)] # << >>

CmdReturned == cmdPc = "returned"

Aborted == \E i \in DOMAIN runs : runs[i].ended = "IndexValidationError"
SomeCounted == \E i \in DOMAIN runs : runs[i].counted
SomeFalse == \E i \in DOMAIN runs : runs[i].ended = "False"

\* C9 (as claimed): exit code 0 only when no run counted a missing, damaged
\* or new file, 1 when some run counted one and no run aborted, 2 exactly
\* when a run aborted with a validation failure.
C9_ExitCodeByFindings ==
    CmdReturned =>
        /\ exitCode = <<0>> => ~SomeCounted
        /\ (SomeCounted /\ ~Aborted) => exitCode = <<1>>
        /\ exitCode = <<2>> <=> Aborted

\* C9 (amended): exit code 0 exactly when every run returned true, 1 exactly
\* when no run aborted and some run returned false, 2 exactly when a run
\* aborted with a validation failure; files counted by a run that returned
\* true (new files, or changes committed under accept) leave the code at 0.
C9_ExitCodeByReturnValues ==
    CmdReturned =>
        /\ exitCode \in {<<0>>, <<1>>, <<2>>}
        /\ exitCode = <<0>> <=> \A i \in DOMAIN runs : runs[i].ended = "True"
        /\ exitCode = <<1>> <=> (~Aborted /\ SomeFalse)
        /\ exitCode = <<2>> <=> Aborted
        /\ Aborted => cmdArgs.indexAction # "verify" /\ cmdArgs.changesMode = "reject"

C9_Witness ==
    /\ CmdReturned /\ exitCode = <<0>> /\ Len(runs) = 2
    /\ runs[1].counted /\ ~runs[2].counted

\* C10: a verify run without reject policy and without reuseChecksums that
\* returns has counted as missing the recorded paths absent from the
\* listing, as new the listed paths that are not recorded, as damaged the
\* listed recorded paths whose digest, recomputed with the algorithm of the
\* recorded checksum's length, differs from the recorded one; every listed
\* file is reported at most once, as new or as damaged, never both; new
\* files alone never make the run fail.
C10_VerifyCounts ==
    /\ (InRun /\ builder.verify /\ ~builder.rejectChanges) =>
          exc # "IndexValidationError"
    /\ (InRun /\ pc = "returned" /\ builder.verify /\ ~builder.rejectChanges
          /\ ~builder.reuseChecksums) =>
          /\ builder.missingCount = Cardinality(Missing0)
          /\ builder.newCount = Cardinality(New0)
          /\ builder.damagedCount = Cardinality(Damaged0)
          /\ Printed("m") = Missing0 /\ Count("m") = Cardinality(Missing0)
          /\ Printed("n") = New0 /\ Count("n") = Cardinality(New0)
          /\ Printed("d") = Damaged0 /\ Count("d") = Cardinality(Damaged0)
          /\ \A p \in tree \cap Recorded0 :
                \E i \in DOMAIN hashed :
                    hashed[i] = <<p, IF OldManifest0[p].len = 40 THEN "sha1" ELSE "sha256">>
          /\ \A p \in New0 : \A i \in DOMAIN hashed :
                hashed[i][1] = p => hashed[i][2] = "sha256" /\ builder.create
          /\ (Missing0 = {} /\ Damaged0 = {}) => rc = <<TRUE>>

C10_Witness ==
    /\ InRun /\ pc = "returned" /\ builder.verify /\ ~builder.create
    /\ ~builder.rejectChanges /\ ~builder.reuseChecksums
    /\ builder.newCount = 1 /\ builder.damagedCount = 1
    /\ \E p \in Recorded0 : OldManifest0[p].len = 40

\* ------------------------------------------------------------------------
\* The new manifest
\* ------------------------------------------------------------------------
NewManifest == disk[Sha2Name]

Ascending(lines) ==
    \A i, j \in DOMAIN lines : i < j => lines[i].path < lines[j].path

Legacy(lines) == {i \in DOMAIN lines : lines[i].sum.len = 40}

\* the manifests this run has written: the temporary one, and the canonical
\* one once the temporary manifest was renamed to it
WrittenByRun ==
    (IF TempCreated /\ Exists(disk, TempName) THEN {TempName} ELSE {})
    \cup (IF Promoted THEN {Sha2Name} ELSE {})

\* C12: (a) whatever the flags, reuseChecksums included, every line of a
\* manifest the run writes carries a 64-character digest, never a
\* 40-character one; (b) a verify+create run without reuseChecksums over an
\* old manifest of 40-character digests only, whose recorded paths are the
\* listed ones with unchanged content, hashes every file with the legacy
\* algorithm, counts nothing damaged, missing or new, returns true and
\* leaves a canonical manifest of default-algorithm digests.
C12_AlgorithmUpgrade ==
    /\ InRun =>
          \A n \in WrittenByRun : \A i \in DOMAIN disk[n] : disk[n][i].sum.len = 64
    /\ (InRun /\ pc = "returned" /\ builder.create /\ builder.verify
          /\ ~builder.reuseChecksums /\ OldRead /\ tree # {} /\ Recorded0 = tree
          /\ (\A p \in Recorded0 : OldManifest0[p] = [len |-> 40, data |-> FileData(p)])) =>
          /\ \A p \in tree : \E i \in DOMAIN hashed : hashed[i] = <<p, "sha1">>
          /\ builder.damagedCount = 0 /\ builder.missingCount = 0
          /\ builder.newCount = 0
          /\ Printed("d") = {}
          /\ rc = <<TRUE>>
          /\ Legacy(NewManifest) = {}
          /\ NewManifest = ExpectedLines

C12_Witness ==
    /\ InRun /\ pc = "returned" /\ builder.create /\ builder.verify
    /\ ~builder.reuseChecksums /\ OldRead /\ Recorded0 = tree
    /\ Cardinality(tree) = 2
    /\ \A p \in Recorded0 : OldManifest0[p] = [len |-> 40, data |-> FileData(p)]
    /\ Legacy(disk0[OldName0]) # {} /\ Legacy(NewManifest) = {}

\* ------------------------------------------------------------------------
\* Two runs over one folder
\* ------------------------------------------------------------------------
SecondRun == InRun /\ firstRun # NoFirstRun

Counts == <<builder.missingCount, builder.damagedCount, builder.newCount>>

\* C13 (as claimed): a create run over a non-empty tree that returned true,
\* followed by a verify-only run over the unchanged tree with the same
\* walker and the same manifest name, default or explicit: the second run
\* returns true with missingCount = damagedCount = newCount = 0 and the
\* summary 'OK'.  Stated for the walker of the index command.
C13_CreateThenVerify ==
    (SecondRun /\ RunExited /\ firstRun.action = "create"
        /\ firstRun.rc = <<TRUE>> /\ tree # {} /\ excluded = CliExcluded) =>
        /\ pc = "returned"
        /\ rc = <<TRUE>>
        /\ Counts = <<0, 0, 0>>
        /\ \E i \in DOMAIN out : out[i] = Line("summary", 0, "OK")

\* the lines of the manifest a verify run reads in the folder as it was
\* when the run began, << >> when there is none
ManifestRead0 ==
    IF cmdArgs.checksumFile # None
    THEN (IF Exists(disk0, cmdArgs.checksumFile) THEN disk0[cmdArgs.checksumFile]
          ELSE << >>)
    ELSE IF Exists(disk0, Sha2Name) THEN disk0[Sha2Name]
    ELSE IF Exists(disk0, Sha1Name) THEN disk0[Sha1Name]
    ELSE << >>

\* the manifest records exactly the listed files, each with a digest of its
\* present bytes
TreeMatchesManifest ==
    /\ {ManifestRead0[i].path : i \in DOMAIN ManifestRead0}
          = Listing(tree, disk0, excluded)
    /\ \A i \in DOMAIN ManifestRead0 :
          ManifestRead0[i].sum.data = FileData(ManifestRead0[i].path)

SummaryPrinted == {out[i].text : i \in {j \in DOMAIN out : out[j].tag = "summary"}}

\* C14: a verify-only run changes no index file of the folder, and two
\* verify-only runs in succession over an unmodified folder end the same
\* way (both return the same value, or both raise the same error), with
\* the same missing, damaged and new counts and the same summary; when the
\* tree matches its manifest both count (0, 0, 0) and return true.
C14_VerifyIdempotent ==
    /\ (InRun /\ cmdArgs.indexAction = "verify") => disk = disk0
    /\ (SecondRun /\ RunExited /\ firstRun.action = "verify") =>
        /\ firstRun.ended = (IF pc = "raised" THEN exc ELSE "returned")
        /\ firstRun.rc = rc
        /\ firstRun.counts = Counts
        /\ SummaryPrinted = (IF firstRun.summary = None THEN {} ELSE {firstRun.summary})
        /\ (TreeMatchesManifest /\ ManifestRead0 # << >>) =>
              /\ pc = "returned"
              /\ rc = <<TRUE>>
              /\ Counts = <<0, 0, 0>>
              /\ firstRun.counts = <<0, 0, 0>>

C14_Witness ==
    /\ SecondRun /\ pc = "returned" /\ firstRun.action = "verify"
    /\ TreeMatchesManifest /\ Cardinality(tree) = 2
    /\ ~builder.reuseChecksums
    /\ firstRun.counts = <<0, 0, 0>> /\ firstRun.rc = <<TRUE>>
    /\ Len(hashed) = 2

\* C15 (as claimed): when run exits, by returning or by raising, the
\* summary line of the folder has been printed, once, as the last line, the
\* cleanup having been done before it.
C15_SummaryOnEveryExit ==
    RunExited =>
        /\ Count("summary") = 1
        /\ out[Len(out)].tag = "summary"
        /\ builder.newIndexFilePath = None
        /\ builder.newIndexWriter = None

\* ------------------------------------------------------------------------
\* FileDb
\* ------------------------------------------------------------------------
\* the ids met from FileInfo i on along the duplicate links, at most n of them
RECURSIVE Links(_, _, _)
Links(infos, i, n) ==
    IF i = NoInfo \/ n = 0 \/ i \notin DOMAIN infos THEN << >>
    ELSE <<i>> \o Links(infos, infos[i].duplicate, n - 1)

\* the chain of checksum c in FileDb db
ChainOf(db, c) == Links(db.infos, db.hashIndex[c], db.nextId + 1)

WellFormed(db) ==
    /\ DOMAIN db.infos = 0 .. db.nextId - 1
    /\ \A i \in DOMAIN db.infos :
          /\ db.infos[i].id = i
          /\ db.infos[i].duplicate \in DOMAIN db.infos \cup {NoInfo}
          /\ Cardinality({c \in DOMAIN db.hashIndex : i \in Range(ChainOf(db, c))}) = 1
    /\ \A c \in DOMAIN db.hashIndex :
          LET chain == ChainOf(db, c)
          IN  /\ chain # << >>
              /\ Len(chain) <= db.nextId
              /\ \A k \in DOMAIN chain : db.infos[chain[k]].checksum = c
              /\ \A k, l \in DOMAIN chain : k < l => chain[k] < chain[l]
              /\ db.infos[chain[Len(chain)]].duplicate = NoInfo

\* db is FileDb before with one FileInfo for (filePath, checksum) appended
Inserted(before, db, filePath, checksum) ==
    /\ db.nextId = before.nextId + 1
    /\ db.infos[before.nextId].filePath = filePath
    /\ db.infos[before.nextId].checksum = checksum
    /\ db.infos[before.nextId].id = before.nextId
    /\ DOMAIN db.hashIndex = DOMAIN before.hashIndex \cup {checksum}
    /\ ChainOf(db, checksum) =
          (IF checksum \in DOMAIN before.hashIndex THEN ChainOf(before, checksum)
           ELSE << >>) \o <<before.nextId>>
    /\ \A c \in DOMAIN before.hashIndex \ {checksum} : ChainOf(db, c) = ChainOf(before, c)
    /\ \A i \in DOMAIN before.infos :
          /\ db.infos[i].filePath = before.infos[i].filePath
          /\ db.infos[i].checksum = before.infos[i].checksum
          /\ db.infos[i].id = before.infos[i].id

\* C16: after any sequence of addFile calls, failed ones included, every
\* chain of the index is a finite list without repetition whose records
\* all carry the chain's checksum, with strictly increasing ids; every
\* record is in exactly one chain; the ids are 0, 1, 2, ... in the order of
\* the successful calls; a successful call appends its record at the tail
\* of the chain of its checksum and leaves every other record's path,
\* checksum, id and place in its chain as they were.
C16_ChainInvariant ==
    /\ WellFormed(fileDb)
    /\ (dbResult.op = "addFile" /\ dbResult.raised = None) =>
          Inserted(dbResult.before, fileDb, dbResult.filePath, dbResult.checksum)
    /\ (dbResult.op = "addFile" /\ dbResult.raised # None) =>
          /\ fileDb.infos = dbResult.before.infos
          /\ fileDb.hashIndex = dbResult.before.hashIndex

C16_Witness ==
    /\ dbResult.op = "addFile" /\ dbResult.raised = None
    /\ dbCalls = 3 /\ fileDb.nextId = 2
    /\ ChainOf(fileDb, dbResult.checksum) = <<0, 1>>
    /\ fileDb.infos[0].filePath # fileDb.infos[1].filePath

\* C17: addFile takes a 40-character checksum for the legacy algorithm and
\* a 64-character one for the default algorithm, recording the algorithm in
\* the algorithms list; with a checksum of any other length it raises the
\* unknown-checksum-type error and leaves the FileDb as it was: no record
\* added, the algorithms list unchanged, the next id not consumed.
C17_UnknownChecksumType ==
    dbResult.op = "addFile" =>
        /\ dbResult.checksum.len = 40 =>
              /\ dbResult.raised = None
              /\ "sha1" \in Range(fileDb.algorithms)
              /\ Range(fileDb.algorithms) = Range(dbResult.before.algorithms) \cup {"sha1"}
        /\ dbResult.checksum.len = 64 =>
              /\ dbResult.raised = None
              /\ Range(fileDb.algorithms) = Range(dbResult.before.algorithms) \cup {"sha256"}
        /\ dbResult.checksum.len \notin {40, 64} =>
              /\ dbResult.raised = "ValueError"
              /\ fileDb = dbResult.before
        /\ Range(fileDb.algorithms) \subseteq {"sha1", "sha256"}

C17_Witness ==
    /\ dbResult.op = "addFile" /\ dbResult.raised = "ValueError"
    /\ dbResult.checksum.len = 32
    /\ fileDb.nextId = 2 /\ Len(fileDb.algorithms) = 2
    /\ fileDb = dbResult.before

\* base names equal but for the case of their letters
SameNameIgnoringCase(a, b) ==
    \E class \in {{"IMG_1.jpg", "img_1.JPG", "IMG_1.JPG"}, {"IMG_2.jpg", "img_2.jpg"}} :
        a \in class /\ b \in class

Least(S) == CHOOSE x \in S : \A y \in S : x <= y

\* the algorithm the k-th successful addFile call was made with
AlgorithmOfId(db, k) == IF db.infos[k].checksum.len = 40 THEN "sha1" ELSE "sha256"

\* C18: the algorithms list holds each algorithm once, in the order of
\* first use by addFile; findFile hashes the file once with each algorithm
\* of the list in turn up to and including the first whose digest is a key
\* of the index (with none on an empty index) and returns none when no
\* digest is a key; on a hit it returns the first record of the chain, in
\* chain order, whose base name equals the query's but for case, and the
\* head of the chain when there is none.
C18_FindFile ==
    /\ \A k, l \in DOMAIN fileDb.algorithms :
          k < l =>
             /\ fileDb.algorithms[k] # fileDb.algorithms[l]
             /\ Least({i \in DOMAIN fileDb.infos :
                          AlgorithmOfId(fileDb, i) = fileDb.algorithms[k]})
                  < Least({i \in DOMAIN fileDb.infos :
                              AlgorithmOfId(fileDb, i) = fileDb.algorithms[l]})
    /\ dbResult.op = "findFile" =>
          LET algs == fileDb.algorithms
              digest(k) == [len |-> IF algs[k] = "sha1" THEN 40 ELSE 64,
                            data |-> dbResult.checksum.data]
              hits == {k \in DOMAIN algs : digest(k) \in DOMAIN fileDb.hashIndex}
          IN  /\ fileDb = dbResult.before
              /\ fileDb.nextId = 0 => dbResult.tried = << >>
              /\ hits = {} => dbResult.tried = algs /\ dbResult.value = NoInfo
              /\ hits # {} =>
                    LET same == {i \in DOMAIN fileDb.infos :
                                    fileDb.infos[i].checksum = digest(Least(hits))}
                        named == {i \in same :
                                     SameNameIgnoringCase(fileDb.infos[i].filePath.name,
                                                          dbResult.filePath.name)}
                    IN  /\ dbResult.tried = SubSeq(algs, 1, Least(hits))
                        /\ dbResult.value = IF named # {} THEN Least(named) ELSE Least(same)

C18_Witness ==
    /\ dbResult.op = "findFile" /\ Len(dbResult.tried) = 2
    /\ dbResult.filePath.name = "IMG_1.JPG"
    /\ dbResult.value = 2
    /\ fileDb.infos[1].checksum = fileDb.infos[2].checksum
    /\ fileDb.infos[2].filePath.name = "img_1.JPG"

\* ------------------------------------------------------------------------
\* FileDb.addIndexedTree
\* ------------------------------------------------------------------------
ProperPrefix(d, e) == Len(d) < Len(e) /\ SubSeq(e, 1, Len(d)) = d

WasLoaded(d, name) == \E i \in DOMAIN loaded : loaded[i] = [dir |-> d, name |-> name]

TreeWalked == dbResult.op = "addIndexedTree" /\ walk = << >> /\ dbResult.raised = None

\* the lines a reader yields for a loaded index file up to the first
\* checksum addFile refuses
Accepted(lines) ==
    LET bad == {i \in DOMAIN lines : lines[i].sum.len \notin {40, 64}}
    IN  IF bad = {} THEN lines ELSE SubSeq(lines, 1, Least(bad) - 1)

\* the paths and checksums of the records the first n loaded index files
\* put into the FileDb
RECURSIVE RecordsOf(_)
RecordsOf(n) ==
    IF n = 0 THEN << >>
    ELSE LET l == loaded[n]
             kind == IF l.name = Sha2Name THEN dirTree[l.dir].sha2 ELSE dirTree[l.dir].sha1
             lines == Accepted(IndexLines(l.name, kind))
         IN  RecordsOf(n - 1) \o
             [i \in DOMAIN lines |->
                 [filePath |-> [dir |-> l.dir \o lines[i].path.dir,
                                name |-> lines[i].path.name],
                  checksum |-> lines[i].sum]]

\* C19: for every directory addIndexedTree visits: if it holds
\* Checksums.sha2, that manifest is loaded and a Checksums.sha1 beside it is
\* not; otherwise if it holds Checksums.sha1, that one is loaded; in both
\* cases no directory beneath it is visited; otherwise every subdirectory
\* of it is visited.  So no two loaded manifests lie on one root-to-leaf
\* path, and the records of the FileDb are, in order, the lines of the
\* loaded manifests with the directory's relative path joined in front of
\* the line's path.
C19_IndexedTree ==
    /\ \A i \in DOMAIN visited :
          LET d == visited[i]
          IN  /\ \A j \in DOMAIN visited : visited[j] = d => j = i
              /\ dirTree[d].sha2 # "absent" =>
                    WasLoaded(d, Sha2Name) /\ ~WasLoaded(d, Sha1Name)
              /\ (dirTree[d].sha2 = "absent" /\ dirTree[d].sha1 # "absent") =>
                    WasLoaded(d, Sha1Name)
              /\ dirTree[d] # NoIndexFiles =>
                    \A j \in DOMAIN visited : ~ProperPrefix(d, visited[j])
              /\ (dirTree[d] = NoIndexFiles /\ TreeWalked) =>
                    \A e \in Subdirs(d) : \E j \in DOMAIN visited : visited[j] = e
    /\ \A i \in DOMAIN loaded :
          /\ \E j \in DOMAIN visited : visited[j] = loaded[i].dir
          /\ (IF loaded[i].name = Sha2Name THEN dirTree[loaded[i].dir].sha2
              ELSE dirTree[loaded[i].dir].sha1) # "absent"
          /\ \A j \in DOMAIN loaded :
                j # i => /\ loaded[j].dir # loaded[i].dir
                         /\ ~ProperPrefix(loaded[i].dir, loaded[j].dir)
    /\ LET records == RecordsOf(Len(loaded))
       IN  /\ fileDb.nextId = Len(records)
           /\ \A i \in DOMAIN records :
                 /\ fileDb.infos[i - 1].filePath = records[i].filePath
                 /\ fileDb.infos[i - 1].checksum = records[i].checksum

C19_Witness ==
    /\ TreeWalked
    /\ dirTree[<< >>] = NoIndexFiles
    /\ dirTree[<<"x">>] = [sha2 |-> "valid", sha1 |-> "valid"]
    /\ dirTree[<<"x", "z">>].sha2 = "valid"
    /\ dirTree[<<"y">>] = [sha2 |-> "absent", sha1 |-> "valid"]
    /\ Len(loaded) = 2 /\ fileDb.nextId = 4
    /\ \E i \in DOMAIN fileDb.infos : fileDb.infos[i].filePath = DbPath(<<"x", "s">>, "IMG_1.jpg")

\* ------------------------------------------------------------------------
\* Manifest reader and writer
\* ------------------------------------------------------------------------
\* C20 (as claimed): a manifest written with ChecksumFileWriter.write reads
\* back with ChecksumFileReader as the same pairs in the same order; and a
\* stored line reads back as the same path whether it uses forward or back
\* slashes, with or without the './' prefix and the '*' or space marker.
C20_ManifestRoundTrip ==
    readBack.done =>
        /\ readBack.raised = None
        /\ readBack.pairs = manifest.pairs

\* ------------------------------------------------------------------------
\* Loading a manifest into a FileDb
\* ------------------------------------------------------------------------
\* the line is empty once its line end is stripped
EmptyLine(l) == \A i \in DOMAIN l : l[i] \in {"\r", "\n"}

HasSeparator(l) == \E i \in DOMAIN l : l[i] = " "

\* what stands before and after the first space of a line that has one
BeforeSeparator(l) == SubSeq(l, 1, Least({i \in DOMAIN l : l[i] = " "}) - 1)
AfterSeparator(l) == SubSeq(l, Least({i \in DOMAIN l : l[i] = " "}) + 1, Len(l))

\* a line that is not empty and lacks the separator or the path
BadLine(l) ==
    /\ ~EmptyLine(l)
    /\ \/ ~HasSeparator(l)
       \/ AfterSeparator(l) \in {<< >>, <<"*">>, <<" ">>}

\* a well-formed line whose checksum FileDb does not take
UnknownLine(l) ==
    /\ ~EmptyLine(l)
    /\ ~BadLine(l)
    /\ Len(BeforeSeparator(l)) \notin {40, 64}

\* the first line of the text at which the load ends early, or the line
\* after the last
LoadEnd(text) ==
    LET ends == {i \in DOMAIN text : BadLine(text[i]) \/ UnknownLine(text[i])}
    IN  IF ends = {} THEN Len(text) + 1 ELSE Least(ends)

\* the numbers of the lines before line n that are not empty, in order
RECURSIVE LinesKept(_, _)
LinesKept(text, n) ==
    IF n <= 1 THEN << >>
    ELSE IF EmptyLine(text[n - 1]) THEN LinesKept(text, n - 1)
    ELSE Append(LinesKept(text, n - 1), n - 1)

\* C21: ChecksumFileReader skips exactly the empty lines; a line without
\* separator or without path ends the read with a ValueError whose message
\* names the file and the 1-based number of the line, empty lines counted;
\* FileDb.addChecksumFile then stops there, the FileDb holding its prior
\* records and, after them, one record for each line before the bad one that
\* is not empty.
C21_MalformedLine ==
    dbResult.op = "addChecksumFile" =>
        LET text == manifest.text
            before == dbResult.before
            base == dbResult.filePath.dir
            end == LoadEnd(text)
            kept == LinesKept(text, end)
        IN  /\ (end <= Len(text) /\ BadLine(text[end])) =>
                   /\ readBack.raised = "ValueError"
                   /\ readBack.message = InvalidLine(end, manifest.name)
            /\ end > Len(text) => readBack.raised = None
            /\ fileDb.nextId = before.nextId + Len(kept)
            /\ \A i \in DOMAIN before.infos :
                   /\ fileDb.infos[i].filePath = before.infos[i].filePath
                   /\ fileDb.infos[i].checksum = before.infos[i].checksum
            /\ \A k \in DOMAIN kept :
                   LET info == fileDb.infos[before.nextId + k - 1]
                       dir == info.filePath.dir
                   IN  /\ SubSeq(dir, 1, Len(base)) = base
                       /\ text[kept[k]] =
                              info.checksum.data \o <<" ", "*", ".", "/">>
                                  \o as_posix(SubSeq(dir, Len(base) + 1, Len(dir))
                                                  \o <<info.filePath.name>>)

\* a load that met an empty line and a well-formed line before a bad third
\* line, into a FileDb that held a record
C21_Witness ==
    /\ dbResult.op = "addChecksumFile"
    /\ dbResult.before.nextId = 1
    /\ Len(manifest.text) = 3
    /\ EmptyLine(manifest.text[1])
    /\ BadLine(manifest.text[3])
    /\ readBack.message = InvalidLine(3, manifest.name)
    /\ fileDb.nextId = 2

\* ------------------------------------------------------------------------
\* The old manifest of a verifying run
\* ------------------------------------------------------------------------
\* the primary name of the manifest: the explicit one if given
PrimaryName == IF cmdArgs.checksumFile # None THEN cmdArgs.checksumFile ELSE Sha2Name

\* the manifest a verifying run is to read in the folder as found
OldManifestName ==
    IF Exists(disk0, PrimaryName) THEN PrimaryName
    ELSE IF cmdArgs.checksumFile = None /\ Exists(disk0, Sha1Name) THEN Sha1Name
    ELSE None

\* the run has read, or failed to read, the old manifest
OldIndexRead == InRun /\ cmdArgs.indexAction # "create" /\ pc # "process"

\* C22: a verifying run reads the old manifest under the primary name, the
\* explicit name if one was given and Checksums.sha2 otherwise, and under
\* Checksums.sha1 only when the primary is absent and no explicit name was
\* given.  When it finds none, a verify-only run raises FileNotFoundError
\* with the tree not scanned, and a verify+create run goes on with an empty
\* mapping: it returns, every listed file counted as new, none as missing or
\* damaged.
C22_OldManifest ==
    OldIndexRead =>
        /\ OldManifestName # None =>
              /\ builder.fileChecksumMap = ReadChecksumMap(disk0[OldManifestName])
              /\ (pc \in {"scan", "checkMissing", "files"}) =>
                    builder.oldIndexFilePath = OldManifestName
        /\ (OldManifestName = None /\ cmdArgs.indexAction = "verify") =>
              /\ exc = "FileNotFoundError"
              /\ pc \in {"cleanup", "summary", "raised"}
              /\ fileList = << >>
              /\ hashed = << >>
              /\ disk = disk0
        /\ (OldManifestName = None /\ cmdArgs.indexAction = "update") =>
              /\ builder.fileChecksumMap = EmptyMap
              /\ exc = None
              /\ builder.missingCount = 0
              /\ builder.damagedCount = 0
              /\ builder.newCount = fileNo
              /\ RunExited => (pc = "returned" /\ builder.newCount = Len(fileList))

\* a verify+create run with the explicit name given found only
\* Checksums.sha1, with records, and returned with both files counted as new
C22_Witness ==
    /\ OldIndexRead /\ pc = "returned"
    /\ cmdArgs.checksumFile = ExplicitName
    /\ cmdArgs.indexAction = "update"
    /\ DOMAIN disk0 = {Sha1Name}
    /\ disk0[Sha1Name] # << >>
    /\ builder.fileChecksumMap = EmptyMap
    /\ builder.newCount = 2

\* ------------------------------------------------------------------------
\* The temporary manifest
\* ------------------------------------------------------------------------
\* C23 (as claimed): of two create runs under way over one folder, however
\* their steps interleave and whether or not they begin in the same second,
\* neither opens for writing a temporary manifest that the other has chosen
\* or is writing, and the two never write to the same temporary path.
C23_NoSharedTemp ==
    /\ \A i \in DOMAIN writersOpened : writersOpened[i].chosenBy = {}
    /\ \A r \in DOMAIN runners, q \in DOMAIN runners :
          (r # q /\ runners[r].newIndexFilePath # NoPath) =>
              runners[r].newIndexFilePath # runners[q].newIndexFilePath

\* the writers run r has opened
OpenedBy(r) == {i \in DOMAIN writersOpened : writersOpened[i].runner = r}

\* C24: a run opens its temporary manifest when it processes its first file
\* and opens at most one; __openNewIndex tests at most 50 candidates, the
\* name with the time stamp and then names with a random token; a writer is
\* opened only on a name that led to no file when it was tested, so that a
\* file met at the opening was made by a run that opened it in between; and
\* when the 50th candidate tested exists too the run fails with
\* FileExistsError, having opened no writer and recorded no temporary path.
C24_OpenNewIndex ==
    \A r \in DOMAIN runners :
        LET run == runners[r]
        IN  /\ Cardinality(OpenedBy(r)) <= 1
            /\ \A i \in OpenedBy(r) :
                  /\ writersOpened[i].fileNo = 0
                  /\ writersOpened[i].existed =>
                        \E j \in 1..(i - 1) :
                            /\ writersOpened[j].name = writersOpened[i].name
                            /\ writersOpened[j].runner # r
            /\ run.fileCount = 0 => OpenedBy(r) = {}
            /\ run.attempt <= MaxAttempts
            /\ run.pc \in {"test", "open"} =>
                  /\ run.attempt < MaxAttempts
                  /\ run.newFilePath.stamp = run.stamp
                  /\ (run.attempt = 0) = (run.newFilePath.token = "")
            /\ run.exc = "FileExistsError" =>
                  /\ run.pc = "raised"
                  /\ run.attempt = MaxAttempts
                  /\ run.newIndexFilePath = NoPath
                  /\ OpenedBy(r) = {}
                  /\ \A n \in DOMAIN tempFiles : tempFiles[n] # r
            /\ run.attempt = MaxAttempts => run.exc = "FileExistsError"

\* a run found the 50th candidate to exist like the 49 before it, in a
\* folder holding only what earlier runs left
C24_Witness ==
    \E r \in DOMAIN runners :
        /\ runners[r].exc = "FileExistsError"
        /\ runners[r].attempt = MaxAttempts
        /\ writersOpened = << >>
        /\ \A n \in DOMAIN tempFiles : tempFiles[n] = 0

\* ------------------------------------------------------------------------
\* FileTreeIterator
\* ------------------------------------------------------------------------
\* the kind of the entry `name` in the directories at depth k
KindAt(k, name) ==
    IF k \in DOMAIN scanned /\ name \in DOMAIN scanned[k] THEN scanned[k][name]
    ELSE "absent"

\* the names of the entries of the given kind in the directories at depth k
NamesAt(k, kind) == {n \in DOMAIN scanned[k] : scanned[k][n] = kind}

\* the name matches '@*' or 'Tb', whatever the case of its letters
ExcludedName(name) == name[1] = "@" \/ lower(name) = <<"t", "b">>

\* the paths of all entries of the tree below the directory dir
RECURSIVE EntriesUnder(_)
EntriesUnder(dir) ==
    LET k == Len(dir)
    IN  {Append(dir, n) : n \in NamesAt(k, "file") \cup NamesAt(k, "dir")}
            \cup UNION {EntriesUnder(Append(dir, n)) : n \in NamesAt(k, "dir")}

\* the paths of the files below the directory dir that have no excluded
\* name between dir and themselves
RECURSIVE FilesUnder(_)
FilesUnder(dir) ==
    LET k == Len(dir)
    IN  {Append(dir, n) : n \in {m \in NamesAt(k, "file") : ~ExcludedName(m)}}
            \cup UNION {FilesUnder(Append(dir, n)) :
                            n \in {m \in NamesAt(k, "dir") : ~ExcludedName(m)}}

\* the files the walk is to yield
ExpectedFiles == FilesUnder(<< >>)

\* the length of the longest common prefix of two paths
RECURSIVE Common(_, _)
Common(p, q) ==
    IF p = << >> \/ q = << >> \/ Head(p) # Head(q) THEN 0
    ELSE 1 + Common(Tail(p), Tail(q))

\* C25: FileTreeIterator.iterate over a finite tree ends, after at most two
\* turns of its loop per entry of the tree and one more, and has then yielded
\* exactly the root-relative paths of the files none of whose components
\* matches an excluded glob, the case of letters ignored, each once; it never
\* yields a directory or a path below an excluded directory; the files of one
\* directory follow one another without a file from elsewhere in between,
\* and where two yielded paths part the names are in case-insensitive order.
C25_Iterate ==
    LET yielded == iteration.yielded
        expected == ExpectedFiles
    IN  /\ iteration.turns <= 2 * Cardinality(EntriesUnder(<< >>)) + 1
        /\ \A i \in DOMAIN yielded : yielded[i] \in expected
        /\ \A i \in DOMAIN yielded, j \in DOMAIN yielded :
              i < j =>
                  LET k == Common(yielded[i], yielded[j]) + 1
                  IN  /\ yielded[i] # yielded[j]
                      /\ k <= Len(yielded[i]) /\ k <= Len(yielded[j])
                      /\ StrLeq(lower(yielded[i][k]), lower(yielded[j][k]))
                      /\ \A l \in i..j : Common(yielded[i], yielded[l]) >= k - 1
        /\ iteration.pc = "done" =>
              /\ Range(yielded) = expected
              /\ iteration.iteratorStack = << >>
              /\ iteration.subdir = << >>

\* a walk ended that passed by an excluded directory holding a file and by a
\* file excluded for its name in other case, below directories whose names
\* differ in case only, and yielded a file two directories down
C25_Witness ==
    /\ iteration.pc = "done"
    /\ KindAt(0, <<"@", "x">>) = "dir"
    /\ KindAt(0, <<"a">>) = "dir"
    /\ KindAt(0, <<"A">>) = "dir"
    /\ KindAt(1, <<"a">>) = "file"
    /\ KindAt(1, <<"t", "B">>) = "file"
    /\ <<<<"A">>, <<"B">>, <<"a">>>> \in Range(iteration.yielded)
    /\ Len(iteration.yielded) >= 4

\* ------------------------------------------------------------------------
\* Reused checksums
\* ------------------------------------------------------------------------
\* the calculateChecksum calls of the run made for file p
HashesOf(p) == {i \in DOMAIN hashed : hashed[i][1] = p}

\* the checksums that the manifests written by the run hold for file p
WrittenFor(p) ==
    UNION { {disk[n][i].sum : i \in {j \in DOMAIN disk[n] : disk[n][j].path = p}} :
            n \in WrittenByRun }

\* C26: in a verifying run with reuseChecksums nothing is counted as
\* damaged, and a file with a recorded checksum is hashed only in
\* verify+create, once, with the default algorithm, and only when the
\* recorded checksum is no 64-character digest; a recorded 64-character
\* digest is written to the new manifest as it is.  In verify+create without
\* reuseChecksums a file with a recorded 64-character digest is hashed once,
\* with the default algorithm, and the digest written is the one compared:
\* the file was reported damaged exactly if what is written differs from
\* what was recorded.
C26_ReuseChecksums ==
    (InRun /\ builder.verify) =>
        /\ builder.reuseChecksums =>
              /\ builder.damagedCount = 0
              /\ Printed("d") = {}
              /\ \A p \in Recorded0 :
                    /\ Cardinality(HashesOf(p)) <= 1
                    /\ \A i \in HashesOf(p) :
                          /\ builder.create
                          /\ hashed[i][2] = defaultChecksumAlgorithm
                          /\ OldManifest0[p].len # 64
                    /\ (builder.create /\ OldManifest0[p].len = 64) =>
                          \A w \in WrittenFor(p) : w = OldManifest0[p]
                    /\ (builder.create /\ OldManifest0[p].len # 64) =>
                          (WrittenFor(p) # {} => HashesOf(p) # {})
        /\ (~builder.reuseChecksums /\ builder.create) =>
              \A p \in Recorded0 :
                  OldManifest0[p].len = 64 =>
                      /\ Cardinality(HashesOf(p)) <= 1
                      /\ \A i \in HashesOf(p) : hashed[i][2] = defaultChecksumAlgorithm
                      /\ WrittenFor(p) # {} => Cardinality(HashesOf(p)) = 1
                      /\ \A w \in WrittenFor(p) :
                            /\ w = calculateChecksum(p, defaultChecksumAlgorithm)
                            /\ (p \in Printed("d")) = (w # OldManifest0[p])

\* a verify+create run with reuseChecksums returned, having copied a recorded
\* 64-character digest of other bytes than the file's to the new manifest
\* without hashing the file
C26_Witness ==
    /\ InRun /\ pc = "returned" /\ builder.verify /\ builder.create
    /\ builder.reuseChecksums /\ Promoted
    /\ \E p \in Recorded0 \cap tree :
          /\ OldManifest0[p] = [len |-> 64, data |-> OtherData(p)]
          /\ WrittenFor(p) = {OldManifest0[p]}
          /\ HashesOf(p) = {}

\* ------------------------------------------------------------------------
\* The frame of a verify-only run
\* ------------------------------------------------------------------------
\* C27: a verify-only run leaves the index files of the folder as they
\* were, in every state up to its return or its raising: it makes no
\* file-system step, opens no writer and records neither a temporary
\* manifest nor a writer.
C27_VerifyOnlyFrame ==
    (InRun /\ cmdArgs.indexAction = "verify") =>
        /\ disk = disk0
        /\ trail = << >>
        /\ openWriters = {}
        /\ builder.newIndexFilePath = None
        /\ builder.newIndexWriter = None

\* a verify-only run raised an I/O error at its second file in a folder
\* that holds a manifest
C27_Witness ==
    /\ InRun /\ cmdArgs.indexAction = "verify"
    /\ pc = "raised" /\ exc = "OSError"
    /\ fileNo = 2
    /\ DOMAIN disk0 # {}
    /\ disk = disk0

\* ------------------------------------------------------------------------
\* C28
\* ------------------------------------------------------------------------
\* the builder as IndexBuilder.__init__ leaves it: nothing counted, nothing
\* read, no temporary manifest
FreshBuilder ==
    /\ builder.newCount = 0
    /\ builder.missingCount = 0
    /\ builder.damagedCount = 0
    /\ builder.fileChecksumMap = EmptyMap
    /\ builder.newIndexFilePath = None
    /\ builder.newIndexWriter = None
    /\ builder.oldIndexFilePath = None

\* the folder's new manifest is in place under the name of a manifest, the
\* temporary one gone
Committed(f) ==
    /\ f.promoted
    /\ Exists(f.disk, Sha2Name)
    /\ ~Exists(f.disk, TempName)

\* the run over the folder went through its whole cycle
Completed(f) == f.ended \in {"True", "False"}

\* C28: the index command works on one folder at a time, in the order given:
\* the k-th folder is begun when k - 1 folders are done with, with a builder
\* that has counted nothing and read nothing, and no step of a run is taken
\* between two folders. When the run over a folder raises
\* IndexValidationError the command returns 2, that folder is the last one
\* begun, every folder before it went through its whole run and is as that
\* run left it, its manifest committed where the run committed one. The
\* command returns 2 in no other case: another exception of a run leaves the
\* command without an exit code.
C28_FoldersInOrder ==
    /\ Len(shelf) = Len(runs)
    /\ cmdPc = "run" => folderNo = Len(shelf) + 1 /\ pc # "idle"
    /\ cmdPc # "run" => folderNo = Len(shelf) /\ pc = "idle" /\ trail = << >>
    /\ cmdPc = "run" /\ pc = "process" => FreshBuilder /\ trail = << >> /\ out = << >>
    /\ \A i \in DOMAIN shelf :
          /\ i < Len(shelf) => Completed(shelf[i])
          /\ shelf[i].promoted => Committed(shelf[i])
          /\ shelf[i].ended = "IndexValidationError" =>
                cmdPc = "returned" /\ exitCode = <<2>>
          /\ ~Completed(shelf[i]) /\ shelf[i].ended # "IndexValidationError" =>
                cmdPc = "raised" /\ exitCode = << >>
    /\ exitCode = <<2>> =>
          /\ shelf # << >>
          /\ shelf[Len(shelf)].ended = "IndexValidationError"
    /\ exitCode # << >> => cmdPc = "returned"

\* the second folder's run was aborted after the first folder's manifest was
\* committed, folders left to work on
C28_Witness ==
    /\ exitCode = <<2>>
    /\ Len(shelf) = 2
    /\ folderNo = 2
    /\ Committed(shelf[1])
    /\ shelf[1].disk # shelf[1].disk0
    /\ shelf[2].ended = "IndexValidationError"
    /\ ~shelf[2].promoted

\* ------------------------------------------------------------------------
\* C29
\* ------------------------------------------------------------------------
\* no file that was in the folder before the command holds other bytes
NothingOverwritten ==
    \A p \in DOMAIN restore.files0 :
        p \in DOMAIN restore.files /\ restore.files[p] = restore.files0[p]

\* C29: once process has returned, it returned true, and the restore command
\* exit code 0, if and only if no record was missing from the content index
\* and no target existed without skipExisting, that is every record's file
\* was either copied from storage or skipped as already present; and at no
\* time does a file that was in a folder before the command hold other bytes.
C29_RestoreSuccess ==
    /\ restore.pc = "returned" =>
          /\ restore.rc = <<TRUE>> <=> ~restore.notFound /\ ~restore.existed
          /\ restore.exitCode = <<0>> <=> restore.rc = <<TRUE>>
    /\ NothingOverwritten
====
